---- MODULE Spec2Model ----
(***************************************************************************)
(* Model of the asynchronous syslog adapter of randlabs/go-logger          *)
(* (src/syslog.go): producers calling writeString, the background          *)
(* messengerWorker, and destroy with its shutdown drain.                   *)
(*                                                                         *)
(* The pending-message queue is a container/list doubly linked list.  It   *)
(* is modelled at the level of its memory cells (root.next, root.prev,     *)
(* len, and each element's next, prev and list fields), because            *)
(* flushQueuedMessages touches the list without holding queuedMessagesMtx  *)
(* while the worker and the producers may still be running.  Spec and      *)
(* SpecLoaded switch goroutines at blocking operations only, so that a     *)
(* list operation runs to its end; SpecRace lets the accesses of the       *)
(* drain and of the mutex holder interleave one by one, and what the data  *)
(* race produces is left to that interleaving.  An unrecovered panic       *)
(* stops the whole process (crashed).                                      *)
(***************************************************************************)
EXTENDS Integers, Sequences, FiniteSets, TLC

\* ---------------------------------------------------------------- bounds
\* Number of concurrent producer goroutines calling writeString.
NumProducers == 2
\* Total number of writeString calls over one run.
MaxMsgs == 3
\* SysLogOptions.MaxMessageQueueSize as configured for the runs of Spec.
QueueSize == 1
\* Iterations of the drain loop that fit before the flush deadline.
MaxFlushIter == 4
\* SysLogOptions.MaxMessageQueueSize as configured for the runs of SpecRace.
RaceQueueSize == 2

\* Entry-point calls made over one run of SpecEntry.
MaxCalls == 2
\* Goroutines that call Default() and Destroy().
NumCallers == 3
\* A port given explicitly in SysLogOptions.Port.
GivenPort == 9999
\* Largest debug level configured or passed to logDebug.
MaxDebugLevel == 2

\* ---------------------------------------------------------------- program constants
LogLevelQuiet == 0
LogLevelError == 1
LogLevelWarning == 2
LogLevelInfo == 3
LogLevelDebug == 4
severityError == 3
severityWarning == 4
severityInformational == 6
severityDebug == 7
facilityUser == 1
DefaultPortUdp == 514
DefaultPortTcp == 1468
DefaultPortTls == 6514

\* ---------------------------------------------------------------- threads
Worker == 0
Destroyer == -1
NoThread == -2
Producers == 1..NumProducers
Threads == {Worker, Destroyer} \cup Producers

Callers == 1..NumCallers
\* A nil *Logger; the Logger the application made with Create.
NoLogger == 0
OwnLogger == 1

\* ---------------------------------------------------------------- list cells
\* A nil *list.Element; the root sentinel of the list; element k carries
\* the k-th message (by order of taking queuedMessagesMtx).
NilElem == -1
Root == 0
Elems == 1..MaxMsgs
Cells == {Root} \cup Elems

\* conn values: absent (nil interface), a non-nil interface holding a nil
\* *tls.Conn (what a failed tls.Dial leaves), or the k-th connection dialed.
NoConn == 0
TypedNilConn == -1

VARIABLES
    nxt,                  \* element.next, and root.next at Root
    prv,                  \* element.prev, and root.prev at Root
    inl,                  \* element.list == queuedMessagesList
    len,                  \* queuedMessagesList.len
    queuedMessagesMtx,    \* the thread holding the mutex, or NoThread
    maxMessageQueueSize,  \* the configured capacity
    wakeUpWorkerCh,       \* the field: "ch" or "nil"
    stopWorkerCh,         \* the field: "ch" or "nil"
    wakeBuf,              \* signals buffered in the wake-up channel (capacity 1)
    wakeClosed,           \* the wake-up channel has been closed
    stopClosed,           \* the stop channel has been closed
    rundownProt,          \* [counter, active]
    conn,                 \* lg.conn
    lastWasError,         \* the error-streak flag (0 or 1)
    pc,                   \* each thread's position
    ctx,                  \* the caller of a thread's list operations
    loc,                  \* each thread's locals: elem, a, b, n, m, err, chs, chw,
                          \* and ops, what its writeBytes call has attempted so far
    nextMsg,              \* messages that entered writeString's critical section
    dials,                \* connections dialed successfully
    dialed,               \* history: [network, port] of the dials that succeeded
    opened,               \* connections dialed and not closed since
    opts,                 \* the SysLogOptions given: [UseTcp, UseTls, Port, Level, DebugLevel]
    glbOpts,              \* the globalOptions given: [Level, DebugLevel]
    useTcp,               \* configuration: lg.useTcp
    useTls,               \* configuration: tlsConfig != nil
    serverPort,           \* configuration: the port of lg.serverAddress
    level,                \* lg.globals.Level
    debugLevel,           \* lg.globals.DebugLevel
    calls,                \* history: the entry-point calls made, in order
    frames,               \* history: the frame writeString formatted for message m
    defaultLoggerInit,    \* the sync.Once of Default(): [done, m]
    defaultLogger,        \* the package variable: NoLogger (nil) or a Logger
    created,              \* Loggers made by Create so far (they are numbered)
    dpc,                  \* each caller's position in Default()
    got,                  \* what Default() last returned to each caller
    returned,             \* history: every Logger that Default() has returned
    destroyedSinks,       \* Loggers whose sinks Destroy() has shut down
    logger,               \* the application's Logger: its fields syslog and file
    sinkDestroys,         \* history: calls of Destroy() made on each of its sinks
    hasErrorHandler,      \* configuration: globals.ErrorHandler != nil
    preemptive,           \* goroutines run in parallel or are preempted anywhere,
                          \* rather than switched at blocking operations only
    stepwise,             \* every section is taken access by access: nothing but
                          \* the mutex keeps two critical sections apart
    sends,                \* history: [by, m, ok, ops, via] of every writeBytes call that returned
    reports,              \* history: number of ErrorHandler invocations
    evicted,              \* history: messages writeString removed on overflow
    deadlineHit,          \* history: the drain loop ended on its deadline
    flushIter,            \* iterations of the drain loop started
    crashed               \* an unrecovered panic has ended the process

listVars == <<nxt, prv, inl, len, evicted>>
chanVars == <<wakeUpWorkerCh, stopWorkerCh, wakeBuf, wakeClosed, stopClosed>>
cfgVars == <<opts, glbOpts, useTcp, useTls, serverPort, level, debugLevel, hasErrorHandler,
             maxMessageQueueSize, preemptive, stepwise>>
logVars == <<calls, frames>>
dflVars == <<defaultLoggerInit, defaultLogger, created, dpc, got, returned, destroyedSinks,
             logger, sinkDestroys>>
vars == <<nxt, prv, inl, len, queuedMessagesMtx, maxMessageQueueSize, wakeUpWorkerCh,
          stopWorkerCh, wakeBuf, wakeClosed, stopClosed, rundownProt, conn,
          lastWasError, pc, ctx, loc, nextMsg, dials, dialed, opened, useTls, hasErrorHandler,
          sends, reports, evicted, deadlineHit, flushIter, crashed, preemptive, stepwise,
          opts, useTcp, serverPort, level, debugLevel, dialed, calls, frames,
          defaultLoggerInit, defaultLogger, created, dpc, got, returned, destroyedSinks,
          logger, sinkDestroys, glbOpts>>

NoLoc == [elem |-> NilElem, a |-> NilElem, b |-> NilElem, n |-> 0, m |-> 0,
          err |-> FALSE, chs |-> "nil", chw |-> "nil", ops |-> <<>>]

\* ---------------------------------------------------------------- helpers
Goto(t, p) == pc' = [pc EXCEPT ![t] = p]
At(t, p) == ~crashed /\ pc[t] = p

\* Where a list operation continues once Front has returned e, for the
\* caller c: writeString ("enq"), the worker ("deq1", "deq2"), the drain ("flush").
AfterFront(c, e) ==
    IF c = "flush"
    THEN IF e = NilElem THEN "fl_end" ELSE "R1"
    ELSE IF e = NilElem
         THEN (IF c = "enq" THEN "P1" ELSE "unlock")
         ELSE "R1"

\* Where a list operation continues once Remove has returned.
AfterRemove(c) ==
    CASE c = "enq" -> "P1"
      [] c = "flush" -> "fl_value"
      [] OTHER -> "unlock"

\* Where a thread continues after queuedMessagesMtx.Unlock(): writeString
\* signals; the worker sends what it dequeued, or goes to its idle wait
\* (first dequeue) or back to the top of its loop (second dequeue).
AfterUnlock(c, e) ==
    CASE c = "enq" -> "ws_signal"
      [] c = "deq1" -> IF e = NilElem THEN "w_select" ELSE "w_acquire"
      [] OTHER -> IF e = NilElem THEN "w_top" ELSE "w_acquire"

\* "uint(lg.queuedMessagesList.Len()) > lg.maxMessageQueueSize", on the value
\* Len() returned (a negative int converts to a huge uint).
QueueIsOver(n, max) == n < 0 \/ n > max

\* ---------------------------------------------------------------- container/list
\* One step of a critical section or list operation.  s holds what the step
\* can read or write: the executing thread t's pc and locals, the mutex, the
\* cells of the list, the message counter, the evicted messages, and
\* crashed (a nil pointer dereference panics).
Done(s, p) == [s EXCEPT !.pc = p, !.loc.a = NilElem, !.loc.b = NilElem, !.loc.n = 0]

\* queuedMessagesMtx.Lock() in writeString (which numbers the message by the
\* order of locking) and in messengerWorker.
Lock(t, c, s) ==
    IF c = "enq"
    THEN [s EXCEPT !.mtx = t, !.nextMsg = s.nextMsg + 1, !.loc.m = s.nextMsg + 1, !.pc = "L1"]
    ELSE [s EXCEPT !.mtx = t, !.pc = "F1"]

\* A worker that keeps the mutex while it delivers what it dequeued.
UnlockOnlyProducers(t, c, s) ==
    [s EXCEPT !.mtx = IF c = "enq" THEN NoThread ELSE t,
              !.pc = AfterUnlock(c, s.loc.elem),
              !.loc = IF c = "enq" THEN NoLoc ELSE s.loc]

\* queuedMessagesMtx.Unlock().
Unlock(t, c, s) ==
    [s EXCEPT !.mtx = NoThread,
              !.pc = AfterUnlock(c, s.loc.elem),
              !.loc = IF c = "enq" THEN NoLoc ELSE s.loc]

\* writeString's overflow test: List.Len() loads l.len.
Len1(c, s) == [s EXCEPT !.pc = IF QueueIsOver(s.len, s.max) THEN "F1" ELSE "P1"]

\* List.Front: "if l.len == 0 { return nil }".
Front1(c, s) ==
    IF s.len = 0
    THEN [s EXCEPT !.loc.elem = NilElem, !.pc = AfterFront(c, NilElem)]
    ELSE [s EXCEPT !.pc = "F2"]

\* List.Front: "return l.root.next".
Front2(c, s) == [s EXCEPT !.loc.elem = s.nxt[Root], !.pc = AfterFront(c, s.nxt[Root])]

\* List.Remove: "if e.list == l"; otherwise Remove returns at once.
Remove1(c, s) ==
    IF s.inl[s.loc.elem] THEN [s EXCEPT !.pc = "R2"] ELSE Done(s, AfterRemove(c))

\* List.remove, "e.prev.next = e.next": load e.prev, load e.next, store
\* (a nil pointer dereference if e.prev was nil).
Remove2(c, s) == [s EXCEPT !.loc.a = s.prv[s.loc.elem], !.pc = "R3"]
Remove3(c, s) == [s EXCEPT !.loc.b = s.nxt[s.loc.elem], !.pc = "R4"]
Remove4(c, s) ==
    IF s.loc.a = NilElem
    THEN [s EXCEPT !.crashed = TRUE]
    ELSE [s EXCEPT !.nxt[s.loc.a] = s.loc.b, !.pc = "R5"]

\* "e.next.prev = e.prev": load e.next, load e.prev, store (a nil pointer
\* dereference if e.next was nil).
Remove5(c, s) == [s EXCEPT !.loc.a = s.nxt[s.loc.elem], !.pc = "R6"]
Remove6(c, s) == [s EXCEPT !.loc.b = s.prv[s.loc.elem], !.pc = "R7"]
Remove7(c, s) ==
    IF s.loc.a = NilElem
    THEN [s EXCEPT !.crashed = TRUE]
    ELSE [s EXCEPT !.prv[s.loc.a] = s.loc.b, !.pc = "R8"]

\* "e.next = nil", "e.prev = nil", "e.list = nil".
Remove8(c, s) == [s EXCEPT !.nxt[s.loc.elem] = NilElem, !.pc = "R9"]
Remove9(c, s) == [s EXCEPT !.prv[s.loc.elem] = NilElem, !.pc = "R10"]
Remove10(c, s) == [s EXCEPT !.inl[s.loc.elem] = FALSE, !.pc = "R11"]

\* "l.len--": load, store; Remove returns.  A removal by writeString is an
\* eviction.
Remove11(c, s) == [s EXCEPT !.loc.n = s.len, !.pc = "R12"]
Remove12(c, s) ==
    Done([s EXCEPT !.len = s.loc.n - 1,
                   !.evicted = IF c = "enq" THEN s.evicted \cup {s.loc.elem} ELSE s.evicted],
         AfterRemove(c))

\* List.PushBack: lazyInit ("if l.root.next == nil { l.Init() }").
PushBack1(c, s) ==
    IF s.nxt[Root] = NilElem
    THEN [s EXCEPT !.nxt[Root] = Root, !.prv[Root] = Root, !.len = 0, !.pc = "P2"]
    ELSE [s EXCEPT !.pc = "P2"]

\* "l.insertValue(v, l.root.prev)": load root.prev as the insertion point.
PushBack2(c, s) == [s EXCEPT !.loc.a = s.prv[Root], !.pc = "P3"]

\* List.insert, "e.prev = at; e.next = at.next" on the new, still private element.
PushBack3(c, s) ==
    IF s.loc.a = NilElem
    THEN [s EXCEPT !.crashed = TRUE]
    ELSE [s EXCEPT !.prv[s.loc.m] = s.loc.a, !.nxt[s.loc.m] = s.nxt[s.loc.a], !.pc = "P4"]

\* "e.prev.next = e": the element becomes reachable from the list.
PushBack4(c, s) == [s EXCEPT !.nxt[s.loc.a] = s.loc.m, !.pc = "P5"]

\* "e.next.prev = e": load e.next, store (a nil pointer dereference if
\* e.next was nil).
PushBack5(c, s) == [s EXCEPT !.loc.b = s.nxt[s.loc.m], !.pc = "P6"]
PushBack6(c, s) ==
    IF s.loc.b = NilElem
    THEN [s EXCEPT !.crashed = TRUE]
    ELSE [s EXCEPT !.prv[s.loc.b] = s.loc.m, !.pc = "P7"]

\* "e.list = l".
PushBack7(c, s) == [s EXCEPT !.inl[s.loc.m] = TRUE, !.pc = "P8"]

\* "l.len++": load, store; PushBack returns.
PushBack8(c, s) == [s EXCEPT !.loc.n = s.len, !.pc = "P9"]
PushBack9(c, s) == Done([s EXCEPT !.len = s.loc.n + 1], "unlock")

\* The positions inside a critical section (for the drain: inside Front or
\* Remove, which it calls without the mutex).
LockPcs == {"p_idle", "w_lock"}
ListPcs == {"L1", "F1", "F2", "R1", "R2", "R3", "R4", "R5", "R6", "R7", "R8", "R9",
            "R10", "R11", "R12", "P1", "P2", "P3", "P4", "P5", "P6", "P7", "P8", "P9"}
SectionPcs == LockPcs \cup ListPcs \cup {"unlock"}

\* The step a thread at s.pc performs next.
Micro(t, c, s) ==
    CASE s.pc \in LockPcs -> Lock(t, c, s)
      [] s.pc = "unlock" -> Unlock(t, c, s)
      [] s.pc = "L1" -> Len1(c, s)
      [] s.pc = "F1" -> Front1(c, s)
      [] s.pc = "F2" -> Front2(c, s)
      [] s.pc = "R1" -> Remove1(c, s)
      [] s.pc = "R2" -> Remove2(c, s)
      [] s.pc = "R3" -> Remove3(c, s)
      [] s.pc = "R4" -> Remove4(c, s)
      [] s.pc = "R5" -> Remove5(c, s)
      [] s.pc = "R6" -> Remove6(c, s)
      [] s.pc = "R7" -> Remove7(c, s)
      [] s.pc = "R8" -> Remove8(c, s)
      [] s.pc = "R9" -> Remove9(c, s)
      [] s.pc = "R10" -> Remove10(c, s)
      [] s.pc = "R11" -> Remove11(c, s)
      [] s.pc = "R12" -> Remove12(c, s)
      [] s.pc = "P1" -> PushBack1(c, s)
      [] s.pc = "P2" -> PushBack2(c, s)
      [] s.pc = "P3" -> PushBack3(c, s)
      [] s.pc = "P4" -> PushBack4(c, s)
      [] s.pc = "P5" -> PushBack5(c, s)
      [] s.pc = "P6" -> PushBack6(c, s)
      [] s.pc = "P7" -> PushBack7(c, s)
      [] s.pc = "P8" -> PushBack8(c, s)
      [] OTHER -> PushBack9(c, s)

\* The steps of a thread from s.pc to the end of its critical section (for
\* the drain: of its Front and Remove), when no other thread can access the
\* list in between.
RECURSIVE Run(_, _, _)
Run(t, c, s) ==
    IF s.crashed THEN s
    ELSE CHOOSE r \in {IF s1.crashed \/ s1.pc \notin (ListPcs \cup {"unlock"})
                       THEN s1 ELSE Run(t, c, s1) : s1 \in {Micro(t, c, s)}} : TRUE

\* Another thread may access the list between two accesses of t.  The
\* worker and the producers exclude each other through queuedMessagesMtx;
\* flushQueuedMessages takes no lock, so under preemptive scheduling the
\* destroying thread overlaps with whoever holds the mutex.
Overlapped(t) ==
    \/ stepwise
    \/ /\ preemptive
       /\ IF t = Destroyer
          THEN queuedMessagesMtx # NoThread
          ELSE pc[Destroyer] \in ListPcs

\* A Lock() that never waits.
SectionReadyNoMutex(t) ==
    /\ ~crashed
    /\ pc[t] \in SectionPcs
    /\ pc[t] = "p_idle" => nextMsg < MaxMsgs

\* What a thread's next step inside or into a critical section waits for:
\* Lock() for the mutex to be free; nothing else.  (A producer makes no
\* more than MaxMsgs calls in all.)
SectionReady(t) ==
    /\ ~crashed
    /\ pc[t] \in SectionPcs
    /\ pc[t] \in LockPcs => queuedMessagesMtx = NoThread
    /\ pc[t] = "p_idle" => nextMsg < MaxMsgs

\* A thread enters or continues a critical section (the drain: a list
\* operation): by one step when another thread overlaps, so that every
\* interleaving of the accesses is possible, and otherwise to the end of
\* the section in one step (no other thread reads or writes the cells
\* meanwhile).
SectionBody(t) ==
    /\ SectionReady(t)
    /\ \E s0 \in {[pc |-> pc[t], loc |-> loc[t], nxt |-> nxt, prv |-> prv,
                    inl |-> inl, len |-> len, mtx |-> queuedMessagesMtx,
                    max |-> maxMessageQueueSize, nextMsg |-> nextMsg,
                    evicted |-> evicted, crashed |-> FALSE]} :
         \E s1 \in {IF Overlapped(t) THEN Micro(t, ctx[t], s0) ELSE Run(t, ctx[t], s0)} :
            /\ pc' = [pc EXCEPT ![t] = s1.pc]
            /\ loc' = [loc EXCEPT ![t] = s1.loc]
            /\ nxt' = s1.nxt
            /\ prv' = s1.prv
            /\ inl' = s1.inl
            /\ len' = s1.len
            /\ evicted' = s1.evicted
            /\ queuedMessagesMtx' = s1.mtx
            /\ nextMsg' = s1.nextMsg
            /\ crashed' = s1.crashed
    /\ UNCHANGED <<chanVars, rundownProt, conn, dials, dialed, opened, sends, lastWasError,
                   reports, cfgVars, deadlineHit, flushIter, ctx>>

SectionStep(t) == SectionBody(t) /\ UNCHANGED <<logVars, dflVars>>

\* The list of a new adapter (list.New(), capacity size) as a critical
\* section sees it.
NewList(size) ==
    [pc |-> "p_idle", loc |-> NoLoc,
     nxt |-> [c \in Cells |-> IF c = Root THEN Root ELSE NilElem],
     prv |-> [c \in Cells |-> IF c = Root THEN Root ELSE NilElem],
     inl |-> [c \in Cells |-> FALSE],
     len |-> 0, mtx |-> NoThread, max |-> size, nextMsg |-> 0, evicted |-> {},
     crashed |-> FALSE]

\* The list after n uncontended critical sections of writeString.
RECURSIVE Enqueued(_, _)
Enqueued(n, size) ==
    IF n = 0 THEN NewList(size)
    ELSE Run(1, "enq", [Enqueued(n - 1, size) EXCEPT !.pc = "p_idle", !.loc = NoLoc])

\* ---------------------------------------------------------------- creation
\* A nil *LogLevel or *uint: the option is not given.
NoLevel == -1

\* A Level override that leaves the debug level of the globals in place.
SinkLevelsKeepDebugLevel(o, g) ==
    [Level |-> IF o.Level # NoLevel THEN o.Level ELSE g.Level,
     DebugLevel |-> IF o.DebugLevel # NoLevel THEN o.DebugLevel ELSE g.DebugLevel]

\* lg.globals after "Set output level based on globals or overrides": a
\* Level given replaces the level and sets the debug level to 1, a
\* DebugLevel given then replaces the debug level.
SinkLevels(o, g) ==
    [Level |-> IF o.Level # NoLevel THEN o.Level ELSE g.Level,
     DebugLevel |-> IF o.DebugLevel # NoLevel THEN o.DebugLevel
                    ELSE IF o.Level # NoLevel THEN 1 ELSE g.DebugLevel]

\* The port of lg.serverAddress: opts.Port, or when that is 0 the default
\* chosen by opts.UseTcp and opts.UseTls.
ServerPort(o) ==
    IF o.Port # 0 THEN o.Port
    ELSE IF o.UseTcp
         THEN (IF o.UseTls THEN DefaultPortTls ELSE DefaultPortTcp)
         ELSE DefaultPortUdp

\* createSysLogAdapter: an empty list (list.New), fresh channels, rundown
\* protection with no reference held, no connection, the worker started.
\* The options chosen (o: UseTcp, UseTls, Port), the levels (g), an error
\* handler (handler), a queue capacity (size); and how the goroutines are
\* scheduled (par) and the sections taken (fine).  It is the adapter after producer 1 has then made
\* n writeString calls, the last of which has still to signal, before the
\* worker's first step.
StartedFrom(n, o, g, handler, size, par, fine) ==
    LET q == Enqueued(n, size)
    IN /\ nxt = q.nxt
       /\ prv = q.prv
       /\ inl = q.inl
       /\ len = q.len
       /\ evicted = q.evicted
       /\ nextMsg = q.nextMsg
       /\ queuedMessagesMtx = NoThread
       /\ maxMessageQueueSize = size
       /\ wakeUpWorkerCh = "ch"
       /\ stopWorkerCh = "ch"
       /\ wakeBuf = IF n >= 2 THEN 1 ELSE 0
       /\ wakeClosed = FALSE
       /\ stopClosed = FALSE
       /\ rundownProt = [counter |-> 0, active |-> FALSE]
       /\ conn = NoConn
       /\ lastWasError = 0
       /\ pc = [t \in Threads |->
                   IF t = Worker THEN "w_top"
                   ELSE IF t = Destroyer THEN "d_idle"
                   ELSE IF t = 1 /\ n > 0 THEN "ws_signal" ELSE "p_idle"]
       /\ ctx = [t \in Threads |->
                   IF t = Worker THEN "deq1" ELSE IF t = Destroyer THEN "flush" ELSE "enq"]
       /\ loc = [t \in Threads |-> NoLoc]
       /\ dials = 0
       /\ opened = {}
       /\ dialed = {}
       /\ opts = o
       /\ useTcp = o.UseTcp
       /\ useTls = o.UseTls
       /\ serverPort = ServerPort(o)
       /\ glbOpts = g
       /\ level = SinkLevels(o, g).Level
       /\ debugLevel = SinkLevels(o, g).DebugLevel
       /\ calls = <<>>
       /\ frames = <<>>
       /\ defaultLoggerInit = [done |-> 0, m |-> NoThread]
       /\ defaultLogger = NoLogger
       /\ created = OwnLogger
       /\ dpc = [c \in Callers |-> "idle"]
       /\ got = [c \in Callers |-> NoLogger]
       /\ returned = {}
       /\ destroyedSinks = {}
       /\ logger = [syslog |-> "sink", file |-> "sink"]
       /\ sinkDestroys = [syslog |-> 0, file |-> 0]
       /\ hasErrorHandler = handler
       /\ preemptive = par
       /\ stepwise = fine
       /\ sends = <<>>
       /\ reports = 0
       /\ deadlineHit = FALSE
       /\ flushIter = 0
       /\ crashed = FALSE

\* The same over TCP, plain or with TLS (tls), the port left to its default,
\* every level enabled.
StartedWith(n, tls, handler, size, par, fine) ==
    StartedFrom(n, [UseTcp |-> TRUE, UseTls |-> tls, Port |-> 0, Level |-> NoLevel,
                 DebugLevel |-> NoLevel],
                [Level |-> LogLevelDebug, DebugLevel |-> 1], handler, size, par, fine)

Started(n, tls, handler, size, par) == StartedWith(n, tls, handler, size, par, FALSE)

\* The adapter as created, over plain TCP or UDP with an error handler, its
\* goroutines switched at blocking operations only.
Init == Started(0, FALSE, TRUE, QueueSize, FALSE)

\* ---------------------------------------------------------------- entry points
\* The characters of a message: a letter and the line feed; the messages
\* logged end with no, one or two line feeds.
Inputs == {<<"a">>, <<"a", "LF">>, <<"a", "LF", "LF">>}
Kinds == {"error", "warning", "info", "debug"}

\* A logDebug that looks at Level only.
LevelAllowsAnyDebugLevel(kind, L, lvl, dbg) ==
    CASE kind = "error" -> lvl >= LogLevelError
      [] kind = "warning" -> lvl >= LogLevelWarning
      [] kind = "info" -> lvl >= LogLevelInfo
      [] OTHER -> lvl >= LogLevelDebug

\* The test of logError, logWarning, logInfo and logDebug(L) on
\* lg.globals.Level and lg.globals.DebugLevel.
LevelAllows(kind, L, lvl, dbg) ==
    CASE kind = "error" -> lvl >= LogLevelError
      [] kind = "warning" -> lvl >= LogLevelWarning
      [] kind = "info" -> lvl >= LogLevelInfo
      [] OTHER -> lvl >= LogLevelDebug /\ dbg >= L

\* The severity each entry point passes to writeString.
Severity(kind) ==
    CASE kind = "error" -> severityError
      [] kind = "warning" -> severityWarning
      [] kind = "info" -> severityInformational
      [] OTHER -> severityDebug

\* A priority with facility and severity in each other's place.
PrioritySwapped(facility, severity) == (severity * 8) + facility

\* "priority := (facility * 8) + severity".
Priority(facility, severity) == (facility * 8) + severity

\* strconv.Itoa of a non-negative int: its decimal digits.
Digits == <<"0", "1", "2", "3", "4", "5", "6", "7", "8", "9">>
RECURSIVE Itoa(_)
Itoa(n) == IF n < 10 THEN <<Digits[n + 1]>> ELSE Itoa(n \div 10) \o <<Digits[(n % 10) + 1]>>

\* strings.HasSuffix(msg, "\n") and strings.TrimSuffix(msg, "\n").
HasSuffixLF(msg) == Len(msg) > 0 /\ msg[Len(msg)] = "LF"
TrimSuffixLF(msg) == IF HasSuffixLF(msg) THEN SubSeq(msg, 1, Len(msg) - 1) ELSE msg

\* A framing that appends a line feed over TCP whatever the message ends with.
FrameMessageAppends(tcp, msg) ==
    IF tcp THEN Append(msg, "LF") ELSE TrimSuffixLF(msg)

\* The message as writeString puts it into the frame: over TCP ended by a
\* line feed, over UDP with one trailing line feed removed.
FrameMessage(tcp, msg) ==
    IF tcp
    THEN (IF HasSuffixLF(msg) THEN msg ELSE Append(msg, "LF"))
    ELSE TrimSuffixLF(msg)

\* formattedMessage: "<" priority ">" timestamp hostname [appName pid] msg,
\* as its priority field and its message part.
Format(tcp, facility, severity, msg) ==
    [pri |-> <<"<">> \o Itoa(Priority(facility, severity)) \o <<">">>,
     msg |-> FrameMessage(tcp, msg)]

\* logError, logWarning, logInfo or logDebug(L) called with msg by producer
\* p: when the level test passes, writeString formats the frame and
\* enqueues it (its critical section).
LogEntry(p, kind, L, msg) ==
    /\ At(p, "p_idle")
    /\ Len(calls) < MaxCalls
    /\ IF LevelAllows(kind, L, level, debugLevel)
       THEN /\ SectionBody(p)
            /\ frames' = Append(frames, Format(useTcp, facilityUser, Severity(kind), msg))
       ELSE UNCHANGED <<listVars, queuedMessagesMtx, chanVars, rundownProt, conn, dials,
                        dialed, opened, sends, lastWasError, reports, cfgVars, nextMsg,
                        deadlineHit, flushIter, ctx, pc, loc, crashed, frames>>
    /\ UNCHANGED dflVars
    /\ calls' = Append(calls, [kind |-> kind, L |-> L, msg |-> msg,
                               n |-> IF nextMsg' > nextMsg THEN nextMsg' ELSE 0])

\* ---------------------------------------------------------------- writeString
\* A wake-up over a channel without buffer: the signal is taken only by a
\* worker that is already waiting.
WriteStringSignalUnbuffered(p) ==
    /\ At(p, "ws_signal")
    /\ wakeBuf' = IF pc[Worker] = "w_wait" THEN 1 ELSE wakeBuf
    /\ Goto(p, "p_idle")
    /\ UNCHANGED <<listVars, queuedMessagesMtx, wakeUpWorkerCh, stopWorkerCh,
                   wakeClosed, stopClosed, rundownProt, conn, dials, dialed, opened, sends,
                   lastWasError, reports, cfgVars, logVars, dflVars, nextMsg, deadlineHit, flushIter,
                   ctx, loc, crashed>>

\* The non-blocking wake-up: "select { case lg.wakeUpWorkerCh <- struct{}{}: default: }".
\* A nil channel is never ready; a send on a closed channel panics; a full
\* buffer takes the default case.
WriteStringSignal(p) ==
    /\ At(p, "ws_signal")
    /\ IF wakeUpWorkerCh = "ch" /\ wakeClosed
       THEN crashed' = TRUE /\ UNCHANGED <<pc, wakeBuf>>
       ELSE /\ wakeBuf' = IF wakeUpWorkerCh = "ch" THEN 1 ELSE wakeBuf
            /\ Goto(p, "p_idle")
            /\ UNCHANGED crashed
    /\ UNCHANGED <<listVars, queuedMessagesMtx, wakeUpWorkerCh, stopWorkerCh,
                   wakeClosed, stopClosed, rundownProt, conn, dials, dialed, opened, sends,
                   lastWasError, reports, cfgVars, logVars, dflVars, nextMsg, deadlineHit, flushIter,
                   ctx, loc>>

\* ---------------------------------------------------------------- writeBytes
Senders == {Worker, Destroyer}

\* A writeBytes that connects at every call.
AlwaysConnects(c) == "wb_dial"

\* Entry of writeBytes: "if lg.conn != nil" chooses the direct write;
\* otherwise connect() is called, whose disconnect() finds nothing to close.
WriteBytesEntry(c) == IF c # NoConn THEN "wb_write1" ELSE "wb_dial"

\* disconnect(): close and forget the connection, if any.
Disconnect(c) == NoConn

\* The dial connect() makes: tls.Dial("tcp"), net.Dial("tcp") or
\* net.Dial("udp"), by lg.useTcp and lg.tlsConfig != nil.
DialNetwork(tcp, tlsSet) == IF tcp THEN (IF tlsSet THEN "tls" ELSE "tcp") ELSE "udp"

\* The dials that succeeded, each with its network and the port of
\* lg.serverAddress.
Dialed(d, tcp, tlsSet, port) ==
    d \cup {[network |-> DialNetwork(tcp, tlsSet), port |-> port]}

\* What connect() leaves in lg.conn when the dial fails: net.Dial returns a
\* nil net.Conn, tls.Dial a nil *tls.Conn that the interface wraps.
FailedDialConn(tls) == IF tls THEN TypedNilConn ELSE NoConn

\* The positions inside writeBytes: a write or a dial in progress.
WritePcs == {"wb_write1", "wb_dial", "wb_write2"}

\* A drain that goes on to the next message after a failed send.
AfterSendKeepsDraining(t, err) == IF t = Worker THEN "w_handleError" ELSE "fl_check"

\* Where the caller continues when writeBytes returns err: the worker in
\* handleError, the drain at its loop test or, "if err != nil { break }", out.
AfterSend(t, err) ==
    IF t = Worker THEN "w_handleError" ELSE IF err THEN "fl_end" ELSE "fl_check"

\* A disconnect that forgets the connection without closing it.
Forgotten(c, o) == o

\* conn.Close() on connection c: it is open no longer.
Close(c, o) == o \ {c}

\* writeBytes returns err to thread t, op having been its last attempt and
\* c the value it leaves in lg.conn.
Return(t, err, op, c) ==
    /\ sends' = Append(sends, [by |-> t, m |-> loc[t].m, ok |-> ~err,
                               ops |-> Append(loc[t].ops, op), via |-> c])
    /\ loc' = [loc EXCEPT ![t].err = err, ![t].ops = Append(@, op)]
    /\ Goto(t, AfterSend(t, err))

\* A send that runs the error-streak handling itself, whoever the caller.
SendFrameWithStreak ==
    /\ lastWasError' = 1
    /\ reports' = IF lastWasError = 0 THEN reports + 1 ELSE reports
    /\ UNCHANGED <<listVars, queuedMessagesMtx, chanVars, rundownProt,
                   cfgVars, logVars, dflVars, nextMsg, deadlineHit, flushIter, ctx>>

\* What a step of writeBytes leaves alone: it neither touches the queue nor
\* runs handleError.
SendFrame ==
    UNCHANGED <<listVars, queuedMessagesMtx, chanVars, rundownProt, lastWasError,
                reports, cfgVars, logVars, dflVars, nextMsg, deadlineHit, flushIter, ctx>>

\* The first lg.conn.Write returns (a nil *tls.Conn receiver panics).  On
\* success writeBytes returns nil; on failure it calls connect(), which
\* first closes the connection.
WriteBytesWrite1(t) ==
    /\ At(t, "wb_write1")
    /\ IF conn = TypedNilConn
       THEN crashed' = TRUE /\ UNCHANGED <<pc, loc, sends, conn, opened>>
       ELSE /\ UNCHANGED crashed
            /\ \E ok \in BOOLEAN :
                 IF ok
                 THEN Return(t, FALSE, "write", conn) /\ UNCHANGED <<conn, opened>>
                 ELSE /\ conn' = Disconnect(conn)
                      /\ opened' = Close(conn, opened)
                      /\ Goto(t, "wb_dial")
                      /\ loc' = [loc EXCEPT ![t].ops = Append(@, "write failed")]
                      /\ UNCHANGED sends
    /\ UNCHANGED <<dials, dialed>>
    /\ SendFrame

\* A writeBytes that writes whether connect() failed or not.
WriteBytesDialThenWrite(t) ==
    /\ At(t, "wb_dial")
    /\ \E ok \in BOOLEAN :
         /\ dials' = IF ok THEN dials + 1 ELSE dials
         /\ dialed' = IF ok THEN Dialed(dialed, useTcp, useTls, serverPort) ELSE dialed
         /\ conn' = IF ok THEN dials + 1 ELSE NoConn
         /\ opened' = IF ok THEN opened \cup {dials + 1} ELSE opened
         /\ Goto(t, "wb_write2")
         /\ loc' = [loc EXCEPT ![t].ops = Append(@, IF ok THEN "connect" ELSE "connect failed")]
    /\ UNCHANGED <<sends, crashed>>
    /\ SendFrame

\* A writeBytes that connects again when connect() failed.
WriteBytesDialAgain(t) ==
    /\ At(t, "wb_dial")
    /\ \E ok \in BOOLEAN :
         /\ dials' = IF ok THEN dials + 1 ELSE dials
         /\ dialed' = IF ok THEN Dialed(dialed, useTcp, useTls, serverPort) ELSE dialed
         /\ conn' = IF ok THEN dials + 1 ELSE FailedDialConn(DialNetwork(useTcp, useTls) = "tls")
         /\ opened' = IF ok THEN opened \cup {dials + 1} ELSE opened
         /\ Goto(t, IF ok THEN "wb_write2" ELSE "wb_dial")
         /\ loc' = [loc EXCEPT ![t].ops = Append(@, IF ok THEN "connect" ELSE "connect failed")]
    /\ UNCHANGED <<sends, crashed>>
    /\ SendFrame

\* The dial of connect() returns; a failed connect ends writeBytes.
WriteBytesDial(t) ==
    /\ At(t, "wb_dial")
    /\ \E ok \in BOOLEAN :
         IF ok
         THEN /\ dials' = dials + 1
              /\ dialed' = Dialed(dialed, useTcp, useTls, serverPort)
              /\ conn' = dials + 1
              /\ opened' = opened \cup {dials + 1}
              /\ Goto(t, "wb_write2")
              /\ loc' = [loc EXCEPT ![t].ops = Append(@, "connect")]
              /\ UNCHANGED sends
         ELSE /\ conn' = FailedDialConn(DialNetwork(useTcp, useTls) = "tls")
              /\ Return(t, TRUE, "connect failed",
                        FailedDialConn(DialNetwork(useTcp, useTls) = "tls"))
              /\ UNCHANGED <<dials, dialed, opened>>
    /\ UNCHANGED crashed
    /\ SendFrame

\* The write retried after a successful connect returns; on failure the
\* connection is dropped and the error returned.
WriteBytesWrite2(t) ==
    /\ At(t, "wb_write2")
    /\ \E ok \in BOOLEAN :
         /\ conn' = IF ok THEN conn ELSE Disconnect(conn)
         /\ opened' = IF ok THEN opened ELSE Close(conn, opened)
         /\ Return(t, ~ok, IF ok THEN "write" ELSE "write failed",
                 IF ok THEN conn ELSE Disconnect(conn))
    /\ UNCHANGED <<dials, dialed, crashed>>
    /\ SendFrame

\* ---------------------------------------------------------------- messengerWorker
\* The stop test at the top of the loop: "select { case <-lg.stopWorkerCh: return; default: }".
WorkerTop ==
    /\ At(Worker, "w_top")
    /\ Goto(Worker, IF stopWorkerCh = "ch" /\ stopClosed THEN "w_exited" ELSE "w_lock")
    /\ loc' = [loc EXCEPT ![Worker] = NoLoc]
    /\ ctx' = [ctx EXCEPT ![Worker] = "deq1"]
    /\ UNCHANGED <<listVars, queuedMessagesMtx, chanVars, rundownProt, conn, dials, dialed, opened,
                   sends, lastWasError, reports, cfgVars, logVars, dflVars, nextMsg, deadlineHit,
                   flushIter, crashed>>

\* Entering the idle wait: the select evaluates its two channel operands.
WorkerSelect ==
    /\ At(Worker, "w_select")
    /\ loc' = [loc EXCEPT ![Worker].chs = stopWorkerCh, ![Worker].chw = wakeUpWorkerCh]
    /\ Goto(Worker, "w_wait")
    /\ UNCHANGED <<listVars, queuedMessagesMtx, chanVars, rundownProt, conn, dials, dialed, opened,
                   sends, lastWasError, reports, cfgVars, logVars, dflVars, nextMsg, deadlineHit,
                   flushIter, ctx, crashed>>

\* The idle wait ends on "case <-lg.stopWorkerCh: return".
WorkerWaitStop ==
    /\ At(Worker, "w_wait")
    /\ loc[Worker].chs = "ch" /\ stopClosed
    /\ Goto(Worker, "w_exited")
    /\ UNCHANGED <<listVars, queuedMessagesMtx, chanVars, rundownProt, conn, dials, dialed, opened,
                   sends, lastWasError, reports, cfgVars, logVars, dflVars, nextMsg, deadlineHit,
                   flushIter, ctx, loc, crashed>>

\* The idle wait ends on "case <-lg.wakeUpWorkerCh:" (a buffered signal, or
\* the zero value of a closed channel); the second dequeue follows.
WorkerWaitWake ==
    /\ At(Worker, "w_wait")
    /\ loc[Worker].chw = "ch" /\ (wakeBuf > 0 \/ wakeClosed)
    /\ wakeBuf' = 0
    /\ ctx' = [ctx EXCEPT ![Worker] = "deq2"]
    /\ Goto(Worker, "w_lock")
    /\ UNCHANGED <<listVars, queuedMessagesMtx, wakeUpWorkerCh, stopWorkerCh,
                   wakeClosed, stopClosed, rundownProt, conn, dials, dialed, opened, sends,
                   lastWasError, reports, cfgVars, logVars, dflVars, nextMsg, deadlineHit, flushIter,
                   loc, crashed>>

\* An Acquire that succeeds whatever Wait has done.
AcquireAlways(r) == TRUE

\* rundownProt.Acquire(): fails once Wait has begun, else takes a reference.
AcquireOk(r) == ~r.active
RundownAcquire(r) == IF AcquireOk(r) THEN [r EXCEPT !.counter = r.counter + 1] ELSE r

\* A Release that gives no reference back.
RundownReleaseKeeps(r) == r

\* rundownProt.Release().
RundownRelease(r) == [r EXCEPT !.counter = r.counter - 1]

\* "if !lg.rundownProt.Acquire() { return }", then the send begins: the
\* type assertion elem.Value.(string) (the root sentinel carries no value)
\* and the entry of writeBytes.
WorkerAcquire ==
    /\ At(Worker, "w_acquire")
    /\ rundownProt' = RundownAcquire(rundownProt)
    /\ IF ~AcquireOk(rundownProt)
       THEN Goto(Worker, "w_exited") /\ UNCHANGED <<loc, crashed>>
       ELSE IF loc[Worker].elem = Root
            THEN crashed' = TRUE /\ UNCHANGED <<pc, loc>>
            ELSE /\ loc' = [loc EXCEPT ![Worker].m = loc[Worker].elem, ![Worker].ops = <<>>]
                 /\ Goto(Worker, WriteBytesEntry(conn))
                 /\ UNCHANGED crashed
    /\ UNCHANGED <<listVars, queuedMessagesMtx, chanVars, conn, dials, dialed, opened, sends,
                   lastWasError, reports, cfgVars, logVars, dflVars, nextMsg, deadlineHit, flushIter, ctx>>

\* handleError: a success clears the streak flag; a failure reports only when
\* the compare-and-swap 0 -> 1 succeeds and a handler is configured.
HandleErrorFlag(err, flag) == IF err THEN 1 ELSE 0
\* A handler called at the start of a streak of sends of either outcome.
ReportsSuccessToo(err, flag, handler) == flag = 0 /\ handler
\* A handler called on every failure, whatever the flag.
ReportsEveryFailure(err, flag, handler) == err /\ handler
HandleErrorReports(err, flag, handler) == err /\ flag = 0 /\ handler

\* "lg.handleError(err)" and "lg.rundownProt.Release()", then back to the top.
WorkerHandleError ==
    /\ At(Worker, "w_handleError")
    /\ lastWasError' = HandleErrorFlag(loc[Worker].err, lastWasError)
    /\ reports' = IF HandleErrorReports(loc[Worker].err, lastWasError, hasErrorHandler)
                  THEN reports + 1 ELSE reports
    /\ rundownProt' = RundownRelease(rundownProt)
    /\ Goto(Worker, "w_top")
    /\ UNCHANGED <<listVars, queuedMessagesMtx, chanVars, conn, dials, dialed, opened, sends,
                   cfgVars, logVars, dflVars, nextMsg, deadlineHit, flushIter, ctx, loc, crashed>>

\* ---------------------------------------------------------------- destroy
\* destroy() begins, for the first time or again after it has returned:
\* "close(lg.stopWorkerCh)" (closing a nil or an already closed channel
\* panics).
DestroyCloseStop ==
    /\ At(Destroyer, "d_idle") \/ At(Destroyer, "d_returned")
    /\ IF stopWorkerCh = "nil" \/ stopClosed
       THEN crashed' = TRUE /\ UNCHANGED <<pc, stopClosed>>
       ELSE /\ stopClosed' = TRUE
            /\ Goto(Destroyer, "d_wait")
            /\ UNCHANGED crashed
    /\ UNCHANGED <<listVars, queuedMessagesMtx, wakeUpWorkerCh, stopWorkerCh, wakeBuf,
                   wakeClosed, rundownProt, conn, dials, dialed, opened, sends, lastWasError,
                   reports, cfgVars, logVars, dflVars, nextMsg, deadlineHit, flushIter, ctx, loc>>

\* A Wait() that leaves Acquire() open.
RundownWaitLeavesOpen(r) == r

\* rundownProt.Wait(), first half: no reference can be acquired any more.
RundownWaitBegin(r) == [r EXCEPT !.active = TRUE]

DestroyWaitBegin ==
    /\ At(Destroyer, "d_wait")
    /\ rundownProt' = RundownWaitBegin(rundownProt)
    /\ Goto(Destroyer, "d_wait2")
    /\ UNCHANGED <<listVars, queuedMessagesMtx, chanVars, conn, dials, dialed, opened, sends,
                   lastWasError, reports, cfgVars, logVars, dflVars, nextMsg, deadlineHit, flushIter,
                   ctx, loc, crashed>>

\* rundownProt.Wait(), second half: returns once every reference is released.
RundownWaitDone(r) == r.counter = 0

\* destroy proceeds from Wait to flushQueuedMessages.
DestroyWaitEnd ==
    /\ At(Destroyer, "d_wait2")
    /\ RundownWaitDone(rundownProt)
    /\ Goto(Destroyer, "fl_check")
    /\ UNCHANGED <<listVars, queuedMessagesMtx, chanVars, rundownProt, conn, dials, dialed, opened,
                   sends, lastWasError, reports, cfgVars, logVars, dflVars, nextMsg, deadlineHit,
                   flushIter, ctx, loc, crashed>>

\* The loop test of flushQueuedMessages, "for time.Now().Before(deadline)":
\* the deadline may have passed at any iteration, and has passed after
\* MaxFlushIter of them.  The drain then reads the list without the mutex.
FlushCheck ==
    /\ At(Destroyer, "fl_check")
    /\ \E before \in BOOLEAN :
         /\ before => flushIter < MaxFlushIter
         /\ IF before
            THEN /\ flushIter' = flushIter + 1
                 /\ Goto(Destroyer, "F1")
                 /\ UNCHANGED deadlineHit
            ELSE /\ deadlineHit' = TRUE
                 /\ Goto(Destroyer, "fl_end")
                 /\ UNCHANGED flushIter
    /\ loc' = [loc EXCEPT ![Destroyer] = NoLoc]
    /\ UNCHANGED <<listVars, queuedMessagesMtx, chanVars, rundownProt, conn, dials, dialed, opened,
                   sends, lastWasError, reports, cfgVars, logVars, dflVars, nextMsg, ctx, crashed>>

\* The drain's send begins: "elem.Value.(string)" (the root sentinel carries
\* no value) and the entry of writeBytes.
FlushValue ==
    /\ At(Destroyer, "fl_value")
    /\ IF loc[Destroyer].elem = Root
       THEN crashed' = TRUE /\ UNCHANGED <<pc, loc>>
       ELSE /\ loc' = [loc EXCEPT ![Destroyer].m = loc[Destroyer].elem, ![Destroyer].ops = <<>>]
            /\ Goto(Destroyer, WriteBytesEntry(conn))
            /\ UNCHANGED crashed
    /\ UNCHANGED <<listVars, queuedMessagesMtx, chanVars, rundownProt, conn, dials, dialed, opened,
                   sends, lastWasError, reports, cfgVars, logVars, dflVars, nextMsg, deadlineHit,
                   flushIter, ctx>>

\* destroy's lg.disconnect() after the drain (Close on a nil *tls.Conn panics).
DestroyDisconnect ==
    /\ At(Destroyer, "fl_end")
    /\ IF conn = TypedNilConn
       THEN crashed' = TRUE /\ UNCHANGED <<pc, conn, opened>>
       ELSE /\ conn' = Disconnect(conn)
            /\ opened' = Close(conn, opened)
            /\ Goto(Destroyer, "d_close_wake")
            /\ UNCHANGED crashed
    /\ UNCHANGED <<listVars, queuedMessagesMtx, chanVars, rundownProt, dials, dialed, sends,
                   lastWasError, reports, cfgVars, logVars, dflVars, nextMsg, deadlineHit, flushIter,
                   ctx, loc>>

\* "close(lg.wakeUpWorkerCh)".
DestroyCloseWake ==
    /\ At(Destroyer, "d_close_wake")
    /\ IF wakeUpWorkerCh = "nil" \/ wakeClosed
       THEN crashed' = TRUE /\ UNCHANGED <<pc, wakeClosed>>
       ELSE /\ wakeClosed' = TRUE
            /\ Goto(Destroyer, "d_nil_wake")
            /\ UNCHANGED crashed
    /\ UNCHANGED <<listVars, queuedMessagesMtx, wakeUpWorkerCh, stopWorkerCh, wakeBuf,
                   stopClosed, rundownProt, conn, dials, dialed, opened, sends, lastWasError,
                   reports, cfgVars, logVars, dflVars, nextMsg, deadlineHit, flushIter, ctx, loc>>

\* "lg.wakeUpWorkerCh = nil".
DestroyNilWake ==
    /\ At(Destroyer, "d_nil_wake")
    /\ wakeUpWorkerCh' = "nil"
    /\ Goto(Destroyer, "d_nil_stop")
    /\ UNCHANGED <<listVars, queuedMessagesMtx, stopWorkerCh, wakeBuf, wakeClosed,
                   stopClosed, rundownProt, conn, dials, dialed, opened, sends, lastWasError,
                   reports, cfgVars, logVars, dflVars, nextMsg, deadlineHit, flushIter, ctx, loc, crashed>>

\* "lg.stopWorkerCh = nil"; destroy returns.
DestroyNilStop ==
    /\ At(Destroyer, "d_nil_stop")
    /\ stopWorkerCh' = "nil"
    /\ Goto(Destroyer, "d_returned")
    /\ UNCHANGED <<listVars, queuedMessagesMtx, wakeUpWorkerCh, wakeBuf, wakeClosed,
                   stopClosed, rundownProt, conn, dials, dialed, opened, sends, lastWasError,
                   reports, cfgVars, logVars, dflVars, nextMsg, deadlineHit, flushIter, ctx, loc, crashed>>

\* ---------------------------------------------------------------- specification
WorkerStep ==
    \/ WorkerTop \/ WorkerSelect \/ WorkerWaitStop \/ WorkerWaitWake
    \/ WorkerAcquire \/ WorkerHandleError

SendStep(t) ==
    \/ WriteBytesWrite1(t) \/ WriteBytesDial(t) \/ WriteBytesWrite2(t)

DestroyStep ==
    \/ DestroyCloseStop \/ DestroyWaitBegin \/ DestroyWaitEnd \/ FlushCheck
    \/ FlushValue \/ DestroyDisconnect \/ DestroyCloseWake
    \/ DestroyNilWake \/ DestroyNilStop

Next ==
    \/ \E t \in Threads : SectionStep(t)
    \/ \E p \in Producers : WriteStringSignal(p)
    \/ WorkerStep
    \/ \E t \in Senders : SendStep(t)
    \/ DestroyStep

Spec == Init /\ [][Next]_vars

\* The adapter after a burst of writeString calls that the worker has not
\* yet seen, with no call following: the worker and destroy work off what
\* the burst left.
InitLoaded == \E n \in 0..MaxMsgs : Started(n, FALSE, TRUE, QueueSize, FALSE)

NextLoaded ==
    \/ \E t \in Senders : SectionStep(t)
    \/ \E p \in Producers : WriteStringSignal(p)
    \/ WorkerStep
    \/ \E t \in Senders : SendStep(t)
    \/ DestroyStep

SpecLoaded == InitLoaded /\ [][NextLoaded]_vars

\* The same after a burst that filled the queue, under preemptive
\* scheduling: the worker's critical sections and the unlocked list
\* operations of the drain interleave access by access.
InitRace == Started(RaceQueueSize + 1, FALSE, TRUE, RaceQueueSize, TRUE)

SpecRace == InitRace /\ [][NextLoaded]_vars

\* The adapter over either kind of transport (useTLS or not), messages
\* queued while the worker was not running.
InitTransport ==
    \E n \in 0..MaxMsgs, tls \in BOOLEAN : Started(n, tls, TRUE, QueueSize, FALSE)

SpecTransport == InitTransport /\ [][NextLoaded]_vars

\* The adapter created with any combination of UseTcp and UseTls and with
\* the port given or not, messages queued while the worker was not running.
InitOptions ==
    \E n \in 0..MaxMsgs, tcp \in BOOLEAN, tls \in BOOLEAN, port \in {0, GivenPort} :
        StartedFrom(n, [UseTcp |-> tcp, UseTls |-> tls, Port |-> port, Level |-> NoLevel,
                     DebugLevel |-> NoLevel],
                    [Level |-> LogLevelDebug, DebugLevel |-> 1],
                    TRUE, QueueSize, FALSE, FALSE)

SpecOptions == InitOptions /\ [][NextLoaded]_vars

\* ---------------------------------------------------------------- Default, Logger.Destroy
DefaultFrame ==
    UNCHANGED <<listVars, queuedMessagesMtx, chanVars, rundownProt, conn, dials, dialed,
                opened, sends, lastWasError, reports, cfgVars, logVars, nextMsg,
                deadlineHit, flushIter, ctx, pc, loc, crashed>>

\* A Do that calls f whenever it holds the mutex.
DoRunsAlways(o) == TRUE

\* sync.Once.doSlow, mutex held: "if o.done == 0 { defer store(1); f() }".
DoRuns(o) == o.done = 0

\* A Destroy without the test for the default logger.
IsNeverDefault(l, d) == FALSE

\* Logger.Destroy: "if logger == defaultLogger { return }".
IsDefault(l, d) == l = d

\* Default() is called: Once.Do takes the fast path when done is set, and
\* otherwise goes for the mutex.
DefaultCall(c) ==
    /\ dpc[c] = "idle"
    /\ dpc' = [dpc EXCEPT ![c] = IF defaultLoggerInit.done = 1 THEN "return" ELSE "lock"]
    /\ UNCHANGED <<defaultLoggerInit, defaultLogger, created, got, returned, destroyedSinks, logger, sinkDestroys>>
    /\ DefaultFrame

\* doSlow: o.m.Lock(), then the test of done under the mutex.
DefaultLock(c) ==
    /\ dpc[c] = "lock"
    /\ defaultLoggerInit.m = NoThread
    /\ defaultLoggerInit' = [defaultLoggerInit EXCEPT !.m = c]
    /\ dpc' = [dpc EXCEPT ![c] = IF DoRuns(defaultLoggerInit) THEN "create" ELSE "unlock"]
    /\ UNCHANGED <<defaultLogger, created, got, returned, destroyedSinks, logger, sinkDestroys>>
    /\ DefaultFrame

\* f: "defaultLogger, _ = Create(Options{Level: LogLevelWarning})"; Create
\* returns a new Logger (with no file and no syslog options it cannot fail).
DefaultCreate(c) ==
    /\ dpc[c] = "create"
    /\ created' = created + 1
    /\ defaultLogger' = created + 1
    /\ dpc' = [dpc EXCEPT ![c] = "done"]
    /\ UNCHANGED <<defaultLoggerInit, got, returned, destroyedSinks, logger, sinkDestroys>>
    /\ DefaultFrame

\* The deferred o.done.Store(1) and o.m.Unlock().
DefaultDone(c) ==
    /\ dpc[c] \in {"done", "unlock"}
    /\ defaultLoggerInit' =
          [done |-> IF dpc[c] = "done" THEN 1 ELSE defaultLoggerInit.done, m |-> NoThread]
    /\ dpc' = [dpc EXCEPT ![c] = "return"]
    /\ UNCHANGED <<defaultLogger, created, got, returned, destroyedSinks, logger, sinkDestroys>>
    /\ DefaultFrame

\* "return defaultLogger".
DefaultReturn(c) ==
    /\ dpc[c] = "return"
    /\ got' = [got EXCEPT ![c] = defaultLogger]
    /\ returned' = returned \cup {defaultLogger}
    /\ dpc' = [dpc EXCEPT ![c] = "idle"]
    /\ UNCHANGED <<defaultLoggerInit, defaultLogger, created, destroyedSinks, logger, sinkDestroys>>
    /\ DefaultFrame

\* Where Logger.Destroy is for each sink field: at the test "!= nil" and
\* the call of the sink's Destroy(), at the assignment of nil, and where
\* it goes on from there.
SinkPcs ==
    [syslog |-> [test |-> "ld_syslog", clear |-> "ld_syslog_nil", next |-> "ld_file"],
     file |-> [test |-> "ld_file", clear |-> "ld_file_nil", next |-> "idle"]]

\* Logger.Destroy() called by c on the Logger l it holds: it returns at
\* once for the default logger, and otherwise goes on to the sinks.
LoggerDestroy(c, l) ==
    /\ dpc[c] = "idle"
    /\ l # NoLogger
    /\ destroyedSinks' = IF IsDefault(l, defaultLogger) THEN destroyedSinks
                         ELSE destroyedSinks \cup {l}
    /\ dpc' = [dpc EXCEPT ![c] = IF IsDefault(l, defaultLogger) \/ l # OwnLogger
                                 THEN "idle" ELSE SinkPcs.syslog.test]
    /\ UNCHANGED <<defaultLoggerInit, defaultLogger, created, got, returned, logger,
                   sinkDestroys>>
    /\ DefaultFrame

\* A Destroy that leaves the reference to the sink in place.
SinkKept(l, k) == l

\* "logger.syslog = nil", "logger.file = nil".
SinkCleared(l, k) == [l EXCEPT ![k] = "nil"]

\* "if logger.syslog != nil { logger.syslog.Destroy()", and the same for
\* logger.file: the sink's Destroy() is called through a reference that is
\* not nil.
SinkDestroy(c, k) ==
    /\ dpc[c] = SinkPcs[k].test
    /\ IF logger[k] # "nil"
       THEN /\ sinkDestroys' = [sinkDestroys EXCEPT ![k] = @ + 1]
            /\ dpc' = [dpc EXCEPT ![c] = SinkPcs[k].clear]
       ELSE /\ dpc' = [dpc EXCEPT ![c] = SinkPcs[k].next]
            /\ UNCHANGED sinkDestroys
    /\ UNCHANGED <<defaultLoggerInit, defaultLogger, created, got, returned, destroyedSinks,
                   logger>>
    /\ DefaultFrame

\* The sink's Destroy() has returned: the reference is cleared.
SinkClear(c, k) ==
    /\ dpc[c] = SinkPcs[k].clear
    /\ logger' = SinkCleared(logger, k)
    /\ dpc' = [dpc EXCEPT ![c] = SinkPcs[k].next]
    /\ UNCHANGED <<defaultLoggerInit, defaultLogger, created, got, returned, destroyedSinks,
                   sinkDestroys>>
    /\ DefaultFrame

\* Callers call Default() and Destroy() at any moment; Destroy() is not
\* called on a Logger while another Destroy() is at work on its sinks.
NextDefault ==
    \E c \in Callers :
        \/ DefaultCall(c) \/ DefaultLock(c) \/ DefaultCreate(c)
        \/ DefaultDone(c) \/ DefaultReturn(c)
        \/ \E l \in {got[c], OwnLogger} :
              /\ \A d \in Callers, k \in DOMAIN SinkPcs :
                    dpc[d] \notin {SinkPcs[k].test, SinkPcs[k].clear}
              /\ LoggerDestroy(c, l)
        \/ \E k \in DOMAIN SinkPcs : SinkDestroy(c, k) \/ SinkClear(c, k)

\* The package before the first call of Default(), the application holding
\* a Logger of its own.
SpecDefault == Init /\ [][NextDefault]_vars

\* The running adapter at any level and debug level, over UDP or TCP, its
\* entry points called by one producer with any message, or with the
\* message part of a frame made before (the level passed matters to logDebug
\* only).
InitEntry ==
    \E tcp \in BOOLEAN, lvl \in LogLevelQuiet..LogLevelDebug, dbg \in 1..MaxDebugLevel :
        StartedFrom(0, [UseTcp |-> tcp, UseTls |-> FALSE, Port |-> 0, Level |-> NoLevel,
                     DebugLevel |-> NoLevel],
                    [Level |-> lvl, DebugLevel |-> dbg], TRUE, QueueSize, FALSE, FALSE)

NextEntry ==
    \/ \E kind \in Kinds, L \in 1..MaxDebugLevel,
          msg \in Inputs \cup {frames[i].msg : i \in 1..Len(frames)} :
          (kind = "debug" \/ L = 1) /\ LogEntry(1, kind, L, msg)
    \/ \E p \in Producers : WriteStringSignal(p)
    \/ SectionStep(Worker)
    \/ WorkerTop \/ WorkerSelect \/ WorkerWaitWake
    \/ WorkerAcquire \/ WorkerHandleError
    \/ SendStep(Worker)

SpecEntry == InitEntry /\ [][NextEntry]_vars

\* The running adapter, every access to the list and every Lock() and
\* Unlock() a step of its own.  destroy() is not called, so stopWorkerCh is
\* never ready in the worker's idle select.
InitRunning == StartedWith(0, FALSE, TRUE, QueueSize, FALSE, TRUE)

NextRunning ==
    \/ \E t \in Producers \cup {Worker} : SectionStep(t)
    \/ \E p \in Producers : WriteStringSignal(p)
    \/ WorkerTop \/ WorkerSelect \/ WorkerWaitWake
    \/ WorkerAcquire \/ WorkerHandleError
    \/ SendStep(Worker)

SpecRunning == InitRunning /\ [][NextRunning]_vars

\* The same where every goroutine that can run does run: the worker goes
\* on whenever it is not blocked, a network call returns, and a writeString
\* call that has begun goes on to its end (whether a producer makes another
\* call is left open).
WorkerRuns ==
    \/ SectionStep(Worker)
    \/ WorkerTop \/ WorkerSelect \/ WorkerWaitWake
    \/ WorkerAcquire \/ WorkerHandleError
    \/ SendStep(Worker)

CallGoesOn(p) == pc[p] # "p_idle" /\ (SectionStep(p) \/ WriteStringSignal(p))

FairRunning ==
    /\ WF_vars(WorkerRuns)
    /\ \A p \in Producers : WF_vars(CallGoesOn(p))

SpecRunningFair == SpecRunning /\ FairRunning

\* The adapter after a burst, destroy() called at any moment, where every
\* goroutine that can run does run: the worker (its stop cases included),
\* a writeString call that has begun, and destroy() once it has been called;
\* every network call returns.  Whether destroy() is called at all is left
\* open.
DestroyGoesOn ==
    \/ DestroyWaitBegin \/ DestroyWaitEnd \/ FlushCheck \/ FlushValue
    \/ DestroyDisconnect \/ DestroyCloseWake \/ DestroyNilWake \/ DestroyNilStop
    \/ SectionStep(Destroyer)
    \/ SendStep(Destroyer)

FairLoaded ==
    /\ WF_vars(WorkerRuns \/ WorkerWaitStop)
    /\ WF_vars(DestroyGoesOn)
    /\ \A p \in Producers : WF_vars(CallGoesOn(p))

SpecLoadedFair == SpecLoaded /\ FairLoaded

\* The adapter created with any global Level and DebugLevel and with its
\* own Level and DebugLevel given or not, its entry points called by one
\* producer.
InitLevels ==
    \E gl \in LogLevelQuiet..LogLevelDebug, gd \in 1..MaxDebugLevel,
       ol \in {NoLevel} \cup (LogLevelQuiet..LogLevelDebug),
       od \in {NoLevel} \cup (1..MaxDebugLevel) :
        StartedFrom(0, [UseTcp |-> FALSE, UseTls |-> FALSE, Port |-> 0, Level |-> ol,
                        DebugLevel |-> od],
                    [Level |-> gl, DebugLevel |-> gd], TRUE, QueueSize, FALSE, FALSE)

NextLevels ==
    \/ \E kind \in Kinds, L \in 1..MaxDebugLevel :
          (kind = "debug" \/ L = 1) /\ LogEntry(1, kind, L, <<"a">>)
    \/ WriteStringSignal(1)

SpecLevels == InitLevels /\ [][NextLevels]_vars

\* ---------------------------------------------------------------- SysLogLogger
\* The synchronous variant: its callers write to the network themselves,
\* under logger.mtx, and there is neither queue nor worker.  conn,
\* lastWasError, useTcp and useTls are its fields of these names; sends
\* records what each writeBytes call attempted and what it returned.
\* The positions between logger.mtx.Lock() and logger.mtx.Unlock().
SyncPcs == {"sy_write1", "sy_dial", "sy_write2"}

\* The callers that hold logger.mtx.
mtx == {q \in Producers : pc[q] \in SyncPcs}

\* Error, Warn or Info calls writeString, which formats the message and
\* calls writeBytes: "logger.mtx.Lock()", then "if logger.conn != nil".
SyncWriteString(p) ==
    /\ At(p, "p_idle")
    /\ nextMsg < MaxMsgs
    /\ mtx = {}
    /\ nextMsg' = nextMsg + 1
    /\ loc' = [loc EXCEPT ![p] = [NoLoc EXCEPT !.m = nextMsg + 1]]
    /\ Goto(p, IF conn # NoConn THEN "sy_write1" ELSE "sy_dial")
    /\ UNCHANGED <<listVars, queuedMessagesMtx, chanVars, rundownProt, conn, dials, dialed,
                   opened, sends, lastWasError, reports, cfgVars, logVars, dflVars,
                   deadlineHit, flushIter, ctx, crashed>>

\* writeBytes unlocks and returns err to writeString, op having been its
\* last attempt and c the value it leaves in logger.conn.
SyncReturn(p, err, op, c) ==
    /\ sends' = Append(sends, [by |-> p, m |-> loc[p].m, ok |-> ~err,
                               ops |-> Append(loc[p].ops, op), via |-> c])
    /\ loc' = [loc EXCEPT ![p].err = err, ![p].ops = Append(@, op)]
    /\ Goto(p, "sy_handle")

\* "_, err := logger.conn.Write(b)" on the connection found: on success
\* writeBytes returns nil, on failure it goes on to connect(), whose
\* disconnect() closes the connection.
SyncWrite1(p) ==
    /\ At(p, "sy_write1")
    /\ IF conn = TypedNilConn
       THEN crashed' = TRUE /\ UNCHANGED <<pc, loc, sends, conn, opened>>
       ELSE /\ UNCHANGED crashed
            /\ \E ok \in BOOLEAN :
                 IF ok
                 THEN SyncReturn(p, FALSE, "write", conn) /\ UNCHANGED <<conn, opened>>
                 ELSE /\ conn' = Disconnect(conn)
                      /\ opened' = Close(conn, opened)
                      /\ Goto(p, "sy_dial")
                      /\ loc' = [loc EXCEPT ![p].ops = Append(@, "write failed")]
                      /\ UNCHANGED sends
    /\ UNCHANGED <<dials, dialed>>
    /\ SendFrame

\* "err = logger.connect()": the dial returns; when it fails writeBytes
\* returns its error.
SyncDial(p) ==
    /\ At(p, "sy_dial")
    /\ \E ok \in BOOLEAN :
         IF ok
         THEN /\ dials' = dials + 1
              /\ dialed' = Dialed(dialed, useTcp, useTls, serverPort)
              /\ conn' = dials + 1
              /\ opened' = opened \cup {dials + 1}
              /\ Goto(p, "sy_write2")
              /\ loc' = [loc EXCEPT ![p].ops = Append(@, "connect")]
              /\ UNCHANGED sends
         ELSE /\ conn' = FailedDialConn(DialNetwork(useTcp, useTls) = "tls")
              /\ SyncReturn(p, TRUE, "connect failed",
                            FailedDialConn(DialNetwork(useTcp, useTls) = "tls"))
              /\ UNCHANGED <<dials, dialed, opened>>
    /\ UNCHANGED crashed
    /\ SendFrame

\* What writeBytes returns after the retried write: "_, err := logger.conn.Write(b)"
\* declares a new err inside the block "if err == nil {", so the final
\* "return err" returns the err of connect(), whatever the write returned.
SyncRetryResult(connectErr, writeErr) == connectErr

\* The write retried after a successful connect returns; on failure the
\* connection is dropped.
SyncWrite2(p) ==
    /\ At(p, "sy_write2")
    /\ \E ok \in BOOLEAN :
         /\ conn' = IF ok THEN conn ELSE Disconnect(conn)
         /\ opened' = IF ok THEN opened ELSE Close(conn, opened)
         /\ SyncReturn(p, SyncRetryResult(FALSE, ~ok), IF ok THEN "write" ELSE "write failed",
                       IF ok THEN conn ELSE Disconnect(conn))
    /\ UNCHANGED <<dials, dialed, crashed>>
    /\ SendFrame

\* writeString after writeBytes: success clears lastWasError, the first
\* error of a streak is written to the console.
SyncHandleError(p) ==
    /\ At(p, "sy_handle")
    /\ lastWasError' = HandleErrorFlag(loc[p].err, lastWasError)
    /\ reports' = IF HandleErrorReports(loc[p].err, lastWasError, TRUE)
                  THEN reports + 1 ELSE reports
    /\ Goto(p, "p_idle")
    /\ UNCHANGED <<listVars, queuedMessagesMtx, chanVars, rundownProt, conn, dials, dialed,
                   opened, sends, cfgVars, logVars, dflVars, nextMsg, deadlineHit, flushIter,
                   ctx, loc, crashed>>

NextSync ==
    \E p \in Producers :
        \/ SyncWriteString(p)
        \/ SyncWrite1(p) \/ SyncDial(p) \/ SyncWrite2(p)
        \/ SyncHandleError(p)

\* A SysLogLogger over TCP as CreateSysLogLogger returns it, not connected,
\* its callers logging concurrently.
SpecSync == Init /\ [][NextSync]_vars

\* ---------------------------------------------------------------- properties
\* The writeBytes calls of thread t that have returned, in order.
SentBy(t) == SelectSeq(sends, LAMBDA r : r.by = t)

\* The messages handed to the transport, in order.
Written == [i \in 1..Len(sends) |-> sends[i].m]

AllWritesSucceeded == \A i \in 1..Len(sends) : sends[i].ok

\* The positions of destroy from the drain on.
DrainedPcs == {"fl_end", "d_close_wake", "d_nil_wake", "d_nil_stop", "d_returned"}

\* C1: in every reachable state the number of messages in
\* queuedMessagesList is at most maxMessageQueueSize.
C1_QueueNeverExceedsCapacity == len <= maxMessageQueueSize

\* A queue holding one message more than its capacity.
C1_QueueOverCapacity == len = maxMessageQueueSize + 1 /\ len = Cardinality({e \in Elems : inl[e]})

\* C2: the messages handed to the transport, by the worker and by the drain,
\* appear in the order of their enqueueing: of two writes the earlier one is
\* of the message enqueued earlier (no message is written twice or late).
C2_WrittenInEnqueueOrder ==
    \A i, j \in 1..Len(sends) : i < j => sends[i].m < sends[j].m

\* The same message handed to the transport twice.
C2_WrittenTwice == \E i, j \in 1..Len(sends) : i < j /\ sends[i].m = sends[j].m

\* C3: while the worker (or the drain) is inside a write or a dial it does
\* not hold the queue mutex, and every producer with a call to make or to
\* finish can take its next step, unless it waits for the mutex held by
\* another producer.
C3_ProducersNeverWaitForNetwork ==
    \A t \in Senders :
        (~crashed /\ pc[t] \in WritePcs) =>
            /\ queuedMessagesMtx # t
            /\ \A p \in Producers :
                 \/ pc[p] = "p_idle" /\ nextMsg >= MaxMsgs
                 \/ pc[p] = "p_idle" /\ queuedMessagesMtx \in Producers \ {p}
                 \/ SectionReady(p)
                 \/ ENABLED WriteStringSignal(p)

\* The worker is inside a dial while one producer, its message enqueued,
\* is about to signal and another can start its call.
C3_ProducersRunDuringDial ==
    /\ pc[Worker] = "wb_dial"
    /\ \E p, q \in Producers :
         /\ pc[p] = "ws_signal"
         /\ pc[q] = "p_idle"
         /\ SectionReady(q)

\* C4: when destroy() has returned the worker has exited and the connection
\* is absent.
C4_DestroyReturnsAfterWorkerExit ==
    pc[Destroyer] = "d_returned" => (pc[Worker] = "w_exited" /\ conn = NoConn)

\* destroy() has returned and the worker waits on the channel fields it
\* read as nil: it never exits.
C4_WorkerOutlivesDestroy ==
    /\ pc[Destroyer] = "d_returned"
    /\ pc[Worker] = "w_wait"
    /\ loc[Worker].chs = "nil"
    /\ loc[Worker].chw = "nil"

\* C5: from the moment destroy starts its drain, the worker is not inside
\* writeBytes (nor between it and Release), holds no rundown reference, and
\* can acquire none.
C5_ConnectionNeverShared ==
    pc[Destroyer] \notin {"d_idle", "d_wait", "d_wait2"} =>
        /\ pc[Worker] \notin WritePcs \cup {"w_handleError"}
        /\ rundownProt.counter = 0
        /\ ~AcquireOk(rundownProt)

\* The drain is inside writeBytes while the worker, a message in hand, is
\* about to call Acquire.
C5_WorkerAtAcquireDuringDrain ==
    pc[Destroyer] \in WritePcs /\ pc[Worker] = "w_acquire"

\* The worker's sends whose error handleError has processed.
Handled ==
    LET w == SentBy(Worker)
    IN IF pc[Worker] = "w_handleError" THEN SubSeq(w, 1, Len(w) - 1) ELSE w

\* The number of failure streaks in a sequence of sends.
Streaks(w) == Cardinality({i \in 1..Len(w) : ~w[i].ok /\ (i = 1 \/ w[i - 1].ok)})

\* C6: with an error handler configured, the handler has been called once
\* per streak of consecutive failed worker sends, and the streak flag is set
\* exactly when the last send processed failed.
C6_OneReportPerFailureStreak ==
    hasErrorHandler =>
        /\ reports = Streaks(Handled)
        /\ lastWasError = IF Handled # <<>> /\ ~Handled[Len(Handled)].ok THEN 1 ELSE 0

\* A failure, a success and a failure processed: two reports.
C6_TwoStreaksReported ==
    /\ Len(Handled) = 3
    /\ ~Handled[1].ok /\ Handled[2].ok /\ ~Handled[3].ok
    /\ reports = 2

\* C7: after a burst of MaxMsgs messages enqueued before the worker could
\* deliver any, with more messages than the capacity, once the worker has
\* delivered everything with every write succeeding, the transport has
\* received exactly the last maxMessageQueueSize messages, in order.
C7_LastCapacityMessagesDelivered ==
    ( /\ nextMsg = MaxMsgs
      /\ MaxMsgs > maxMessageQueueSize
      /\ pc[Destroyer] = "d_idle"
      /\ pc[Worker] = "w_wait"
      /\ len = 0
      /\ AllWritesSucceeded )
    => Written = [i \in 1..maxMessageQueueSize |-> MaxMsgs - maxMessageQueueSize + i]

\* The worker has delivered one message more than the capacity.
C7_OneMoreDelivered ==
    /\ nextMsg = MaxMsgs
    /\ pc[Destroyer] = "d_idle"
    /\ pc[Worker] = "w_wait"
    /\ AllWritesSucceeded
    /\ Len(Written) = maxMessageQueueSize + 1

\* No message has left the queue through the worker or the drain.
NoDequeueYet == sends = <<>> /\ loc[Worker].elem = NilElem /\ pc[Destroyer] = "d_idle"

\* C8: as long as no dequeue has taken place, the enqueues exceeding the
\* capacity by k, exactly the k oldest messages have been evicted; and no
\* evicted message is ever handed to the transport.
C8_ExactlyOverflowEvicted ==
    /\ NoDequeueYet =>
         LET k == IF nextMsg > maxMessageQueueSize
                  THEN nextMsg - maxMessageQueueSize ELSE 0
         IN evicted = 1..k
    /\ \A i \in 1..Len(sends) : sends[i].m \notin evicted

\* Enqueues exceeding the capacity by one, no dequeue, and nothing evicted.
C8_OverflowNotEvicted ==
    /\ NoDequeueYet
    /\ nextMsg = maxMessageQueueSize + 1
    /\ \A p \in Producers : pc[p] = "p_idle"
    /\ evicted = {}

\* C9: when destroy() has returned, every write having succeeded and the
\* deadline not having elapsed, every message enqueued before destroy()
\* began and not evicted has been handed to the transport.
C9_NothingDroppedByDestroy ==
    (pc[Destroyer] = "d_returned" /\ ~deadlineHit /\ AllWritesSucceeded)
    => \A m \in (1..nextMsg) \ evicted : \E i \in 1..Len(sends) : sends[i].m = m

\* destroy() has returned and the worker has exited with a message it
\* dequeued and never sent.
C9_MessageDroppedByWorker ==
    /\ pc[Destroyer] = "d_returned"
    /\ ~deadlineHit
    /\ AllWritesSucceeded
    /\ pc[Worker] = "w_exited"
    /\ loc[Worker].elem \in Elems
    /\ \A i \in 1..Len(sends) : sends[i].m # loc[Worker].elem

\* The drain's loop is left.
DrainEnds == pc[Destroyer] # "fl_end" /\ pc'[Destroyer] = "fl_end"

\* C10: the drain sends one message at a time; only its last send can have
\* failed, and after a failed send it dequeues and sends nothing more; and it
\* leaves its loop only when a send has just failed, or Front found the
\* queue empty, or the deadline test at the start of an iteration failed.
C10_DrainStopsExactly ==
    /\ [](LET d == SentBy(Destroyer)
          IN /\ \A i \in 1..Len(d) : ~d[i].ok => i = Len(d)
             /\ (d # <<>> /\ ~d[Len(d)].ok) => pc[Destroyer] \in DrainedPcs)
    /\ [][DrainEnds =>
            \/ pc[Destroyer] \in WritePcs /\ Len(sends') = Len(sends) + 1
                 /\ ~sends'[Len(sends')].ok
            \/ pc[Destroyer] \in ListPcs /\ len = 0
            \/ pc[Destroyer] = "fl_check" /\ deadlineHit']_vars

\* The drain has left its loop, no send of its own having failed and the
\* deadline not having elapsed, with a message still linked in the list
\* that was never handed to the transport.
C10_DrainStoppedWithMessageQueued ==
    /\ pc[Destroyer] \in DrainedPcs
    /\ ~deadlineHit
    /\ \A i \in 1..Len(sends) : sends[i].by = Destroyer => sends[i].ok
    /\ \E e \in Elems : inl[e] /\ \A i \in 1..Len(sends) : sends[i].m # e

C12_SecondDestroyDoesNotCrash ==
    [][(pc[Destroyer] = "d_returned" /\ DestroyCloseStop) => ~crashed']_vars

\* The process has panicked in a second destroy(), on closing the nil
\* stopWorkerCh.
C12_SecondDestroyPanicked ==
    crashed /\ pc[Destroyer] = "d_returned" /\ stopWorkerCh = "nil"


\* ---------------------------------------------------------------- C13
\* What one writeBytes call has attempted: connects and writes.
Connects == {"connect", "connect failed"}
Writes == {"write", "write failed"}
Count(o, S) == Cardinality({i \in 1..Len(o) : o[i] \in S})

\* C13: one writeBytes call never makes more than one connect attempt or
\* more than two writes; when its write on the established connection fails,
\* exactly one connect attempt follows and, if that succeeds, exactly one
\* retried write, after which the call returns.
C13_OneReconnectOneRetry ==
    \A t \in Senders :
        LET o == loc[t].ops
        IN /\ Count(o, Connects) <= 1
           /\ Count(o, Writes) <= 2
           /\ (o # <<>> /\ o[1] = "write failed") =>
                /\ Len(o) = 1 => pc[t] = "wb_dial"
                /\ Len(o) >= 2 => o[2] \in Connects
                /\ (Len(o) >= 2 /\ o[2] = "connect failed") =>
                     Len(o) = 2 /\ pc[t] \notin WritePcs
                /\ (Len(o) >= 2 /\ o[2] = "connect") =>
                     IF pc[t] = "wb_write2" THEN Len(o) = 2
                     ELSE Len(o) = 3 /\ o[3] \in Writes /\ pc[t] \notin WritePcs

C13_WriteFailedReconnectedRetried ==
    \E t \in Senders : loc[t].ops = <<"write failed", "connect", "write">>

\* ---------------------------------------------------------------- C14
\* A call during which the transport did not fail.
NoFailure(o) == \A i \in 1..Len(o) : o[i] \in {"write", "connect"}

\* C14: when a successful send is followed by a send during which the
\* transport does not fail, the second send only writes (no disconnect, no
\* connect) and leaves the connection of the first in place.
C14_NextSendReusesConnection ==
    \A i \in 1..(Len(sends) - 1) :
        (sends[i].ok /\ NoFailure(sends[i + 1].ops)) =>
            /\ sends[i + 1].ops = <<"write">>
            /\ sends[i + 1].via = sends[i].via
            /\ sends[i + 1].via \in 1..dials

C14_TwoSendsOneConnection ==
    /\ Len(sends) >= 2
    /\ sends[1].ok /\ sends[2].ok
    /\ sends[2].ops = <<"write">>
    /\ sends[1].via = 1 /\ sends[2].via = 1

\* ---------------------------------------------------------------- C15
\* C15: at most one transport connection is open at any time, and it is the
\* one the adapter holds: none is left open behind a reconnect.
C15_AtMostOneOpenConnection ==
    /\ Cardinality(opened) <= 1
    /\ opened \subseteq {conn}

C15_SecondConnectionReplacedFirst == dials = 2 /\ opened = {2} /\ conn = 2

\* ---------------------------------------------------------------- C16
\* C16: a connect that fails inside a send is the last thing that send
\* attempts (no write and no second connect after it), and the send
\* returns the error.
C16_FailedConnectEndsSend ==
    /\ \A t \in Senders :
          LET o == loc[t].ops
          IN \A i \in 1..Len(o) :
                o[i] = "connect failed" =>
                    i = Len(o) /\ pc[t] \notin WritePcs /\ loc[t].err
    /\ \A k \in 1..Len(sends) :
          LET o == sends[k].ops
          IN \A i \in 1..Len(o) :
                o[i] = "connect failed" => i = Len(o) /\ ~sends[k].ok

C16_ConnectFailedInsideSend ==
    /\ Len(sends) >= 1
    /\ \E k \in 1..Len(sends) :
          sends[k].ops = <<"write failed", "connect failed">> /\ ~sends[k].ok

\* ---------------------------------------------------------------- C17
\* C17: whenever writeBytes returns an error, lg.conn compares equal to nil
\* afterwards, so that the next send starts with a connect.
C17_NoConnectionAfterError ==
    \A k \in 1..Len(sends) : ~sends[k].ok => sends[k].via = NoConn

\* A send failed in tls.Dial, lg.conn held a nil *tls.Conn from then on, and
\* the next use of it panicked.
C17_NextUseOfFailedTlsConnPanicked ==
    /\ useTls
    /\ crashed
    /\ conn = TypedNilConn
    /\ Len(sends) >= 1
    /\ ~sends[Len(sends)].ok
    /\ sends[Len(sends)].via = TypedNilConn

\* ---------------------------------------------------------------- C18
\* C18: once destroy() has returned, no thread is inside writeBytes and no
\* write or dial happens any more, whatever the producers go on to enqueue:
\* no send returns, no connection is opened.
C18_NoWriteAfterDestroy ==
    /\ [](pc[Destroyer] = "d_returned" => \A t \in Senders : pc[t] \notin WritePcs)
    /\ [][pc[Destroyer] = "d_returned" =>
            (sends' = sends /\ dials' = dials /\ opened' = opened /\ conn' = conn)]_vars

\* destroy() returned after a drain that emptied the queue, and a message
\* logged since then is queued, unsent, with the worker still alive.
C18_MessageQueuedAfterDestroy ==
    /\ pc[Destroyer] = "d_returned"
    /\ ~deadlineHit
    /\ \A i \in 1..Len(sends) : sends[i].ok
    /\ len >= 1
    /\ pc[Worker] # "w_exited"
    /\ ~crashed

\* ---------------------------------------------------------------- C19
\* The elements of the queue from the front, as the next pointers link them.
RECURSIVE Walk(_, _)
Walk(c, k) ==
    IF c = Root \/ c = NilElem \/ k = 0 THEN <<>> ELSE <<c>> \o Walk(nxt[c], k - 1)

Linked == Walk(nxt[Root], MaxMsgs + 1)

\* The messages whose writeString call has left its critical section.
Enqueueing == {loc[p].m : p \in {q \in Producers : pc[q] \in ListPcs \cup {"unlock"}}}
Accepted == (1..nextMsg) \ Enqueueing

\* The elements a thread is removing or has removed and still holds.
InHand == {loc[t].elem : t \in Producers \cup {Worker}} \ {NilElem, Root}

\* C19: with producers calling writeString concurrently on the running
\* adapter, every accepted message has been appended exactly once: it is
\* linked in the queue once, or has left it by one way only (evicted by a
\* producer, or dequeued by the worker and sent once); and the queue holds
\* the messages in the order of their calls, so that those of one producer
\* keep their relative order.
C19_EveryEnqueueAppendedOnce ==
    /\ \A i, j \in 1..Len(Linked) : i < j => Linked[i] < Linked[j]
    /\ \A i, j \in 1..Len(sends) : i < j => sends[i].m < sends[j].m
    /\ \A m \in Accepted :
          LET linked == \E i \in 1..Len(Linked) : Linked[i] = m
              sent == \E i \in 1..Len(sends) : sends[i].m = m
          IN /\ linked \/ m \in evicted \/ sent \/ m \in InHand
             /\ ~(m \in evicted /\ sent)
             /\ ~(linked /\ (m \in evicted \/ sent))
    /\ len = Len(Linked) \/ \E t \in Producers \cup {Worker} : pc[t] \in ListPcs

\* Two producers called writeString at the same time: one holds the mutex
\* inside its critical section while the other waits at Lock(), and a
\* message of an earlier call is queued.
C19_ProducerWaitsForProducer ==
    /\ \E p, q \in Producers :
          /\ p # q
          /\ queuedMessagesMtx = p
          /\ pc[p] \in ListPcs
          /\ pc[q] = "p_idle"
    /\ Len(Linked) >= 1
    /\ nextMsg = MaxMsgs

\* ---------------------------------------------------------------- C20
\* C20: a thread that reads or modifies the queue holds queuedMessagesMtx,
\* and no two threads are inside a queue operation at the same time.
C20_QueueAccessedUnderMutex ==
    /\ \A t \in Threads : pc[t] \in ListPcs => queuedMessagesMtx = t
    /\ \A t, u \in Threads : (pc[t] \in ListPcs /\ pc[u] \in ListPcs) => t = u

\* The drain is inside Front or Remove, without the mutex, while the worker
\* is inside its own and holds it.
C20_DrainInsideWorkerSection ==
    /\ pc[Destroyer] \in ListPcs
    /\ pc[Worker] \in ListPcs
    /\ queuedMessagesMtx = Worker

\* ---------------------------------------------------------------- C21
\* Message m is linked in the queue, its writeString call past Unlock().
Queued(m) == m \in Accepted /\ \E i \in 1..Len(Linked) : Linked[i] = m

\* The worker has taken m from the queue, or a producer has evicted it.
Dequeued(m) ==
    \/ m \in evicted
    \/ loc[Worker].elem = m /\ pc[Worker] \notin ListPcs
    \/ \E i \in 1..Len(sends) : sends[i].m = m

\* C21: on the running adapter the worker is never in (or entering) its idle
\* wait with a message queued, no writeString call in progress and no
\* wake-up signal buffered; and every queued message is eventually dequeued
\* by the worker unless it is evicted.
C21_NoWakeUpLost ==
    /\ []((/\ pc[Worker] \in {"w_select", "w_wait"}
           /\ len > 0
           /\ \A p \in Producers : pc[p] = "p_idle") => wakeBuf > 0)
    /\ \A m \in 1..MaxMsgs : Queued(m) ~> Dequeued(m)

\* A message was enqueued while the worker was in its idle wait, and the
\* signal for it is buffered.
C21_SignalBufferedForIdleWorker ==
    /\ pc[Worker] = "w_wait"
    /\ len > 0
    /\ wakeBuf = 1
    /\ \A p \in Producers : pc[p] = "p_idle"

\* ---------------------------------------------------------------- C22
\* C22: no step of a writeString call, an eviction in particular, invokes
\* the error handler or changes lastWasError; the handler is invoked only
\* by the worker's handleError for a send of its own that failed.
C22_OverflowNeverReported ==
    [][/\ (evicted' # evicted \/ \E p \in Producers : pc'[p] # pc[p]) =>
            (reports' = reports /\ lastWasError' = lastWasError)
       /\ reports' # reports =>
            /\ pc[Worker] = "w_handleError"
            /\ loc[Worker].err
            /\ \E i \in 1..Len(sends) :
                  sends[i].by = Worker /\ sends[i].m = loc[Worker].m /\ ~sends[i].ok]_vars

\* A message was evicted and nothing has been reported.
C22_EvictedWithoutReport ==
    /\ evicted # {}
    /\ reports = 0
    /\ lastWasError = 0

\* ---------------------------------------------------------------- C23
\* C23: with UseTls set, whatever UseTcp, every connection established is a
\* TLS connection over TCP.
C23_UseTlsDialsTls ==
    opts.UseTls => \A d \in dialed : d.network = "tls"

\* UseTls without UseTcp: the adapter connected over UDP.
C23_UseTlsDialedUdp ==
    /\ opts.UseTls
    /\ ~opts.UseTcp
    /\ \E d \in dialed : d.network = "udp"

\* ---------------------------------------------------------------- C24
\* C24: the port connected to is the port given, or when none is given 6514
\* with UseTls (which implies TCP), else 1468 with UseTcp, else 514.
C24_PortDefaultedByProtocol ==
    \A d \in dialed :
        d.port = IF opts.Port # 0 THEN opts.Port
                 ELSE IF opts.UseTls THEN 6514
                 ELSE IF opts.UseTcp THEN 1468
                 ELSE 514

\* UseTls without UseTcp and without a port: the adapter connected to 514.
C24_UseTlsDialedPort514 ==
    /\ opts.UseTls
    /\ ~opts.UseTcp
    /\ opts.Port = 0
    /\ \E d \in dialed : d.port = 514

\* ---------------------------------------------------------------- C25
\* The messages the entry-point calls so far have enqueued.
EnqueuedByCalls == {calls[i].n : i \in 1..Len(calls)} \ {0}

\* C25: a call of an entry point enqueues its message if and only if the
\* level admits it: an error at Level >= Error, a warning at Level >=
\* Warning, an info at Level >= Info, a debug message of level L at Level >=
\* Debug with DebugLevel >= L.  Every call that is admitted enqueues one
\* message, and no other message is ever queued or sent.
C25_EnqueuedIffLevelAdmits ==
    /\ \A i \in 1..Len(calls) :
          LET c == calls[i]
          IN (c.n # 0) <=>
                \/ c.kind = "error" /\ level >= 1
                \/ c.kind = "warning" /\ level >= 2
                \/ c.kind = "info" /\ level >= 3
                \/ c.kind = "debug" /\ level >= 4 /\ debugLevel >= c.L
    /\ Cardinality(EnqueuedByCalls) = nextMsg
    /\ EnqueuedByCalls = 1..nextMsg
    /\ \A i \in 1..Len(sends) : sends[i].m \in EnqueuedByCalls
    /\ \A i \in 1..Len(Linked) : Linked[i] \in EnqueuedByCalls

\* At Level Debug with DebugLevel 1: a debug message of level 1 was enqueued
\* and sent, one of level 2 was not enqueued.
C25_DebugLevelTwoSuppressed ==
    /\ level = LogLevelDebug
    /\ debugLevel = 1
    /\ Len(calls) = 2
    /\ calls[1].kind = "debug" /\ calls[1].L = 1 /\ calls[1].n = 1
    /\ calls[2].kind = "debug" /\ calls[2].L = 2 /\ calls[2].n = 0
    /\ Len(sends) = 1
    /\ len = 0

\* ---------------------------------------------------------------- C26
\* The priority field "<n>" read back as a number.
PriorityOf(f) ==
    LET d == SubSeq(f.pri, 2, Len(f.pri) - 1)
        V(c) == CHOOSE k \in 0..9 : Digits[k + 1] = c
    IN IF Len(d) = 1 THEN V(d[1]) ELSE 10 * V(d[1]) + V(d[2])

\* The body a collector reads from the frame: over TCP the line feed that
\* ends the frame is the delimiter, not part of the body.
BodyOf(f) == IF useTcp THEN SubSeq(f.msg, 1, Len(f.msg) - 1) ELSE f.msg

\* The priority the claim gives for each entry point.
ClaimedPriority(kind) ==
    CASE kind = "error" -> 11
      [] kind = "warning" -> 12
      [] kind = "info" -> 14
      [] OTHER -> 15

\* C26 as stated: every frame carries the priority 11, 12, 14 or 15 of its
\* entry point, and its body equals the input message.
C26_BodyEqualsInput ==
    \A i \in 1..Len(calls) :
        calls[i].n # 0 =>
            /\ PriorityOf(frames[calls[i].n]) = ClaimedPriority(calls[i].kind)
            /\ BodyOf(frames[calls[i].n]) = calls[i].msg

\* C26, amended: every frame carries the priority 11, 12, 14 or 15 of its
\* entry point (facility 1, severity 3, 4, 6, 7), its priority field is
\* "<" digits ">", and its body equals the input message without the line
\* feed the input ends with, if it ends with one; over TCP the frame ends
\* with a line feed.
C26_BodyEqualsInputUpToLineFeed ==
    \A i \in 1..Len(calls) :
        calls[i].n # 0 =>
            LET f == frames[calls[i].n]
                in == calls[i].msg
                kind == calls[i].kind
            IN /\ PriorityOf(f) = ClaimedPriority(kind)
               /\ PriorityOf(f) = 8 + (CASE kind = "error" -> 3 [] kind = "warning" -> 4
                                         [] kind = "info" -> 6 [] OTHER -> 7)
               /\ f.pri[1] = "<" /\ f.pri[Len(f.pri)] = ">" /\ Len(f.pri) = 4
               /\ useTcp => (Len(f.msg) > 0 /\ f.msg[Len(f.msg)] = "LF")
               /\ IF Len(in) > 0 /\ in[Len(in)] = "LF"
                  THEN Append(BodyOf(f), "LF") = in
                  ELSE BodyOf(f) = in

\* A message that ends with a line feed was framed, dequeued and sent.
C26_InputWithLineFeedSent ==
    \E i \in 1..Len(calls) :
        /\ calls[i].msg = <<"a", "LF">>
        /\ calls[i].n # 0
        /\ \E k \in 1..Len(sends) : sends[k].m = calls[i].n /\ sends[k].ok

\* ---------------------------------------------------------------- C27
\* C27: Default() creates the shared logger at most once, every call
\* returns that same logger (never nil, never a second one), also when the
\* first calls run concurrently; and Destroy() on it does nothing: its
\* sinks are never shut down.
C27_DefaultCreatedOnce ==
    /\ created <= OwnLogger + 1
    /\ Cardinality(returned) <= 1
    /\ \A l \in returned : l = defaultLogger /\ l # NoLogger /\ l # OwnLogger
    /\ \A c \in Callers : got[c] \in {NoLogger, defaultLogger}
    /\ defaultLogger \notin destroyedSinks

\* First calls of Default() ran concurrently: one caller has the logger it
\* created, a second found done unset and waits for the mutex that a third
\* holds; Destroy() has been called on a logger (the application's own is
\* shut down, the default one is not).
C27_ConcurrentFirstCalls ==
    /\ \E c, d, e \in Callers :
          /\ got[c] = defaultLogger /\ dpc[c] = "idle"
          /\ dpc[d] = "lock"
          /\ dpc[e] = "unlock" /\ defaultLoggerInit.m = e
    /\ defaultLogger # NoLogger
    /\ destroyedSinks = {OwnLogger}

\* ---------------------------------------------------------------- C28
\* C28: once destroy() has been called the worker eventually terminates
\* (or a panic has ended the whole process); it is never left blocked.
C28_WorkerEventuallyExits ==
    (pc[Destroyer] # "d_idle") ~> (pc[Worker] = "w_exited" \/ crashed)

\* The worker entered its idle wait after destroy() cleared both channel
\* fields: it waits on two nil channels, which are never ready.
C28_WorkerBlockedOnNilChannels ==
    /\ pc[Worker] = "w_wait"
    /\ loc[Worker].chs = "nil" /\ loc[Worker].chw = "nil"
    /\ stopWorkerCh = "nil" /\ wakeUpWorkerCh = "nil"
    /\ stopClosed
    /\ ~crashed

C30_SignalNeverPanics ==
    [][\A p \in Producers : WriteStringSignal(p) => ~crashed']_vars

\* A log call reached its wake-up signal between destroy()'s
\* close(lg.wakeUpWorkerCh) and the clearing of the field, and its send on
\* the closed channel panicked.
C30_SignalOnClosedChannel ==
    /\ crashed
    /\ pc[Destroyer] = "d_nil_wake"
    /\ wakeClosed /\ wakeUpWorkerCh = "ch"
    /\ \E p \in Producers : pc[p] = "ws_signal"
    /\ len <= maxMessageQueueSize
\* ---------------------------------------------------------------- C31
\* C31: every enqueued message is handed to writeBytes at most once,
\* whoever sends it: no two writeBytes calls, of the worker or of the
\* drain, carry the same message.
C31_HandedToWriteBytesAtMostOnce ==
    \A i, j \in 1..Len(sends) : sends[i].m = sends[j].m => i = j

\* The drain of destroy() handed the same message to writeBytes in two of
\* its iterations, after its list accesses overlapped the worker's.
C31_DrainSentMessageTwice ==
    \E i, j \in 1..Len(sends) :
        /\ i < j
        /\ sends[i].m = sends[j].m
        /\ sends[i].by = Destroyer /\ sends[j].by = Destroyer
        /\ sends[i].ok /\ sends[j].ok
\* ---------------------------------------------------------------- C32
\* C32: no step of destroy(), the sends of its drain included, whether they
\* fail or succeed, changes lastWasError or invokes the error handler; both
\* change only in the worker's handleError.
C32_DrainLeavesStreakAlone ==
    [][/\ pc'[Destroyer] # pc[Destroyer] =>
            (reports' = reports /\ lastWasError' = lastWasError)
       /\ (reports' # reports \/ lastWasError' # lastWasError) =>
            (pc[Worker] = "w_handleError" /\ pc'[Worker] = "w_top")]_vars

\* The drain has sent one message and failed to send the next, with no
\* report and the flag clear.
C32_DrainFailedWithoutReport ==
    /\ \E i, j \in 1..Len(sends) :
          /\ i < j
          /\ sends[i].by = Destroyer /\ sends[i].ok
          /\ sends[j].by = Destroyer /\ ~sends[j].ok
    /\ pc[Destroyer] = "d_returned"
    /\ reports = 0
    /\ lastWasError = 0
\* ---------------------------------------------------------------- C33
\* C33: a writeString call leaves the queue as it found it with the new
\* message appended as the tail, less at most one element, which is then the
\* head it found; and it does remove that head when it found the queue
\* holding exactly maxMessageQueueSize messages.
C33_EnqueueDropsOldestWhenFull ==
    [][\A p \in Producers :
          (pc[p] = "p_idle" /\ pc'[p] = "ws_signal") =>
             /\ \/ Linked' = Append(Linked, nextMsg')
                \/ Linked # <<>> /\ Linked' = Append(Tail(Linked), nextMsg')
             /\ Len(Linked) = maxMessageQueueSize =>
                   Linked' = Append(Tail(Linked), nextMsg')]_vars

\* A call that found the queue holding exactly maxMessageQueueSize messages
\* has appended its message and removed nothing.
C33_FullQueueGrewByOne ==
    /\ \E p \in Producers : pc[p] = "ws_signal"
    /\ evicted = {}
    /\ Len(Linked) = maxMessageQueueSize + 1
    /\ Linked[Len(Linked)] = nextMsg
    /\ len = Len(Linked)

\* ---------------------------------------------------------------- C34
\* C34: the adapter is created without a connection and no step of a
\* writeString call dials or touches lg.conn; a dial is made only by a
\* thread inside writeBytes, which comes to it either on entry, having found
\* no connection, or from the first write of the same call, which failed.
C34_ConnectsLazilyInsideSend ==
    /\ (dials = 0 /\ conn = NoConn /\ opened = {})
    /\ [][/\ (\E p \in Producers : pc'[p] # pc[p]) =>
                (dials' = dials /\ conn' = conn /\ opened' = opened)
          /\ (dials' # dials \/ opened' \ opened # {}) =>
                (\E t \in Senders : pc[t] = "wb_dial" /\ pc'[t] = "wb_write2")
          /\ \A t \in Senders :
                (pc[t] # "wb_dial" /\ pc'[t] = "wb_dial") =>
                    \/ pc[t] \notin WritePcs /\ conn = NoConn /\ loc'[t].ops = <<>>
                    \/ pc[t] = "wb_write1" /\ loc'[t].ops = <<"write failed">>]_vars

\* Two messages were enqueued before anything was dialed; the first send
\* then connected and wrote.
C34_FirstSendConnected ==
    /\ nextMsg >= 2
    /\ Len(sends) = 1
    /\ sends[1].ops = <<"connect", "write">>
    /\ sends[1].m = 1
    /\ dials = 1
    /\ conn = 1
\* ---------------------------------------------------------------- C35
\* C35 as stated: over TCP the message part of a frame is the body with a
\* line feed appended unless the body ends with one already, over UDP it is
\* the body less one trailing line feed; and a body that is itself the
\* message part of a frame is framed unchanged.
C35_FramingIsIdempotent ==
    \A i \in 1..Len(calls) :
        calls[i].n # 0 =>
            LET in == calls[i].msg
                f == frames[calls[i].n].msg
                ends == Len(in) > 0 /\ in[Len(in)] = "LF"
            IN /\ useTcp => /\ f[Len(f)] = "LF"
                            /\ f = IF ends THEN in ELSE in \o <<"LF">>
               /\ ~useTcp => f = IF ends THEN SubSeq(in, 1, Len(in) - 1) ELSE in
               /\ \A j \in 1..Len(calls) :
                     (calls[j].n # 0 /\ calls[j].msg = f) => frames[calls[j].n].msg = f

\* C35, amended: as above, but a message part framed again is unchanged
\* over TCP, and over UDP when it does not end with a line feed; a body that
\* ended with more than one line feed still ends with one after framing
\* over UDP, and framing it again removes one more.
C35_FramingIsIdempotentButForRepeatedLineFeeds ==
    \A i \in 1..Len(calls) :
        calls[i].n # 0 =>
            LET in == calls[i].msg
                f == frames[calls[i].n].msg
                ends == Len(in) > 0 /\ in[Len(in)] = "LF"
                fends == Len(f) > 0 /\ f[Len(f)] = "LF"
            IN /\ useTcp => /\ f[Len(f)] = "LF"
                            /\ f = IF ends THEN in ELSE in \o <<"LF">>
               /\ ~useTcp => f = IF ends THEN SubSeq(in, 1, Len(in) - 1) ELSE in
               /\ \A j \in 1..Len(calls) :
                     (calls[j].n # 0 /\ calls[j].msg = f) =>
                        frames[calls[j].n].msg =
                            IF useTcp \/ ~fends THEN f ELSE SubSeq(f, 1, Len(f) - 1)

\* A body was changed by the framing, and the message part of its frame,
\* logged again, was framed unchanged.
C35_FramedAgainUnchanged ==
    \E i, j \in 1..Len(calls) :
        /\ i < j
        /\ calls[i].n # 0 /\ calls[j].n # 0
        /\ frames[calls[i].n].msg # calls[i].msg
        /\ calls[j].msg = frames[calls[i].n].msg
        /\ frames[calls[j].n].msg = calls[j].msg
\* ---------------------------------------------------------------- C36
\* C36: in the synchronous variant, a writeBytes call whose last attempt was
\* a write that failed returns an error, which writeString then handles;
\* a call that returned success ended with a write that succeeded.
C36_SyncFailedRetryReturnsError ==
    /\ \A k \in 1..Len(sends) :
          LET o == sends[k].ops
          IN /\ o[Len(o)] = "write failed" => ~sends[k].ok
             /\ sends[k].ok => o[Len(o)] = "write"
    /\ \A p \in Producers :
          (pc[p] = "sy_handle" /\ loc[p].ops[Len(loc[p].ops)] \in {"write failed", "connect failed"})
              => loc[p].err

\* The write on the connection failed, the reconnect succeeded, the retried
\* write failed, and writeBytes returned nil: nothing was reported, the
\* flag is clear, and the message was never written.
C36_SyncLostMessageReportedSent ==
    /\ \E k \in 1..Len(sends) :
          /\ sends[k].ops = <<"write failed", "connect", "write failed">>
          /\ sends[k].ok
          /\ sends[k].via = NoConn
    /\ \A p \in Producers : pc[p] = "p_idle"
    /\ lastWasError = 0
    /\ reports = 0
\* ---------------------------------------------------------------- C37
\* C37: Logger.Destroy() calls the Destroy() of each sink at most once over
\* any number of calls: when a call returns both references are nil, they
\* stay nil, and a later call finds them nil and calls no sink.
C37_SinksDestroyedAtMostOnce ==
    /\ [](\A k \in DOMAIN SinkPcs : sinkDestroys[k] <= 1)
    /\ [][/\ \A c \in Callers :
                (dpc[c] = SinkPcs.file.clear \/ dpc[c] = SinkPcs.file.test) /\ dpc'[c] = "idle"
                    => logger' = [syslog |-> "nil", file |-> "nil"]
           /\ \A k \in DOMAIN SinkPcs :
                /\ logger[k] = "nil" => (logger'[k] = "nil" /\ sinkDestroys'[k] = sinkDestroys[k])]_vars

\* Destroy() has destroyed both sinks of the application's Logger and
\* returned, and a second Destroy() by another caller is under way: it is
\* past the test of logger.syslog, which it found nil.
C37_SecondDestroyFoundNil ==
    /\ sinkDestroys = [syslog |-> 1, file |-> 1]
    /\ logger = [syslog |-> "nil", file |-> "nil"]
    /\ \E c \in Callers : dpc[c] = SinkPcs.file.test
\* ---------------------------------------------------------------- C38
\* C38: with a Level of its own and no DebugLevel the adapter logs at that
\* Level with debug level 1, whatever the global DebugLevel; a DebugLevel
\* of its own is used; with neither it logs at the global Level and
\* DebugLevel.  The entry points admit messages accordingly.
C38_LevelOverrides ==
    LET ol == opts.Level
        od == opts.DebugLevel
        l == IF ol # NoLevel THEN ol ELSE glbOpts.Level
        d == IF od # NoLevel THEN od ELSE IF ol # NoLevel THEN 1 ELSE glbOpts.DebugLevel
    IN /\ (ol # NoLevel /\ od = NoLevel) => (level = ol /\ debugLevel = 1)
       /\ od # NoLevel => debugLevel = od
       /\ (ol = NoLevel /\ od = NoLevel) =>
             (level = glbOpts.Level /\ debugLevel = glbOpts.DebugLevel)
       /\ level = l /\ debugLevel = d
       /\ \A i \in 1..Len(calls) :
             (calls[i].n # 0) <=>
                \/ calls[i].kind = "error" /\ l >= 1
                \/ calls[i].kind = "warning" /\ l >= 2
                \/ calls[i].kind = "info" /\ l >= 3
                \/ calls[i].kind = "debug" /\ l >= 4 /\ d >= calls[i].L

\* Global DebugLevel 2, the adapter's Level set to Debug and no DebugLevel
\* of its own: a debug message of level 1 was enqueued, one of level 2 was
\* not.
C38_OverrideResetDebugLevel ==
    /\ glbOpts.DebugLevel = 2
    /\ opts.Level = LogLevelDebug
    /\ opts.DebugLevel = NoLevel
    /\ Len(calls) = 2
    /\ calls[1].kind = "debug" /\ calls[1].L = 2 /\ calls[1].n = 0
    /\ calls[2].kind = "debug" /\ calls[2].L = 1 /\ calls[2].n = 1
====
